---- MODULE Spec2Model ----
(***************************************************************************)
(* A model of the SME financial-health platform (Django backend):          *)
(* file ingestion, value extraction, ratio calculation, health scoring,    *)
(* credit-risk assessment and the REST actions that persist their results. *)
(*                                                                         *)
(* Numbers.  A Python number is a record [t, v]: t is its Python type      *)
(* ("int", "float", "Decimal"), v its value in hundredths (12.3 is 1230).  *)
(* None is [t |-> "None"], a raised TypeError is [t |-> "TypeError"].      *)
(* The type is kept because the code mixes float and Decimal: a            *)
(* DecimalField read back from the record store is a Decimal               *)
(* (models.py 73-93, 191), a freshly computed ratio is a float, and        *)
(* Python raises TypeError on float (+,-,*,/) Decimal.                     *)
(* Arithmetic is exact (rational); the code's binary floating point can    *)
(* differ from it in the last digit on isolated inputs.                    *)
(***************************************************************************)
EXTENDS Integers, Sequences, FiniteSets, TLC

VARIABLES
    financial_data,   \* FinancialData rows: pk -> record
    metrics,          \* FinancialMetrics rows, in creation (calculated_at) order
    assessments,      \* CreditAssessment rows, in creation (assessed_at) order
    recommendations,  \* Recommendation rows, in creation (created_at) order
    forecasts,        \* Forecast rows, in creation (created_at) order
    proc,             \* the process request in flight (its position in the handler)
    response,         \* the last HTTP response returned by a view
    call              \* the last direct call of an engine function: inputs and result

vars == <<financial_data, metrics, assessments, recommendations, forecasts, proc, response,
         call>>

(***************************************************************************)
(* Python values                                                           *)
(***************************************************************************)
None == [t |-> "None", v |-> 0]
TypeError == [t |-> "TypeError", v |-> 0]
PyInt(n) == [t |-> "int", v |-> n * 100]
PyFloat(h) == [t |-> "float", v |-> h]
Decimal(h) == [t |-> "Decimal", v |-> h]

IsNum(x) == x.t \in {"int", "float", "Decimal"}
\* bool(x): None and zero are falsy
Truthy(x) == IsNum(x) /\ x.v # 0
\* x or y
Or(x, y) == IF Truthy(x) THEN x ELSE y
\* float (+,-,*,/) Decimal raises TypeError; comparisons do not
Mixed(x, y) == {x.t, y.t} = {"float", "Decimal"}
\* the type of x (+,-,*) y when it does not raise
ArithType(x, y) ==
    IF "Decimal" \in {x.t, y.t} THEN "Decimal"
    ELSE IF "float" \in {x.t, y.t} THEN "float" ELSE "int"
\* a value read back from a DecimalField / IntegerField of the record store
FromDb(x) == IF IsNum(x) THEN Decimal(x.v) ELSE x

\* integer division rounding half to even (Python's round on an exact quotient), d > 0
RoundDiv(n, d) ==
    LET q == n \div d
        r == n % d
    IN  IF 2 * r < d THEN q
        ELSE IF 2 * r > d THEN q + 1
        ELSE IF q % 2 = 0 THEN q ELSE q + 1

\* int(x) on hundredths: truncation towards zero, as a whole number
Trunc(h) == IF h >= 0 THEN h \div 100 ELSE -((-h) \div 100)

Min(a, b) == IF a <= b THEN a ELSE b
Max(a, b) == IF a >= b THEN a ELSE b

(***************************************************************************)
(* Strings: str.lower(), str.strip() and the substring test `k in s`       *)
(***************************************************************************)
UpperCase == "ABCDEFGHIJKLMNOPQRSTUVWXYZ"
LowerCase == "abcdefghijklmnopqrstuvwxyz"

LowerChar(c) ==
    IF \E i \in 1..Len(UpperCase) : SubSeq(UpperCase, i, i) = c
    THEN LET i == CHOOSE j \in 1..Len(UpperCase) : SubSeq(UpperCase, j, j) = c
         IN  SubSeq(LowerCase, i, i)
    ELSE c

RECURSIVE Lower(_)
Lower(s) ==
    IF Len(s) = 0 THEN s
    ELSE LowerChar(SubSeq(s, 1, 1)) \o Lower(SubSeq(s, 2, Len(s)))

RECURSIVE Strip(_)
Strip(s) ==
    IF Len(s) = 0 THEN s
    ELSE IF SubSeq(s, 1, 1) = " " THEN Strip(SubSeq(s, 2, Len(s)))
    ELSE IF SubSeq(s, Len(s), Len(s)) = " " THEN Strip(SubSeq(s, 1, Len(s) - 1))
    ELSE s

\* k in s
Contains(s, k) ==
    \E i \in 1..(Len(s) - Len(k) + 1) : SubSeq(s, i, i + Len(k) - 1) = k

\* any(keyword in s for keyword in keywords)
AnyIn(s, keywords) == \E k \in keywords : Contains(s, k)

(***************************************************************************)
(* Value extractor (engines/financial_health.py)                           *)
(* A statement section is a function from label to amount (a float).       *)
(***************************************************************************)
EmptySection == [k \in {} |-> None]

RECURSIVE SumAmounts(_, _)
SumAmounts(data_dict, keys) ==
    IF keys = {} THEN 0
    ELSE LET k == CHOOSE x \in keys : TRUE
         IN  data_dict[k].v + SumAmounts(data_dict, keys \ {k})

\* a sum returned whenever it is not zero, negative totals included
_sum_matching_signed(data_dict, keywords) ==
    LET matching == {k \in DOMAIN data_dict :
                        AnyIn(Lower(k), keywords) /\ IsNum(data_dict[k])}
        total == SumAmounts(data_dict, matching)
    IN  IF total # 0 THEN PyFloat(total) ELSE None

\* _sum_matching: the sum of the numeric values whose lower-cased key contains a
\* keyword; a total that is not positive is returned as None
_sum_matching(data_dict, keywords) ==
    LET matching == {k \in DOMAIN data_dict :
                        AnyIn(Lower(k), keywords) /\ IsNum(data_dict[k])}
        total == SumAmounts(data_dict, matching)
    IN  IF total > 0 THEN PyFloat(total) ELSE None

\* a difference taken the wrong way round
MinusReversed(x, y) == PyFloat(y.v - x.v)

\* x - y on two floats
Minus(x, y) == PyFloat(x.v - y.v)

\* keywords of current_assets that leave the inventory out
CurrentAssetKeywordsWithoutInventory == {"current asset", "cash", "receivable"}

CurrentAssetKeywords == {"current asset", "cash", "receivable", "inventory"}

_extract_values(balance_sheet, income_statement, cash_flow) ==
    LET current_assets == _sum_matching(balance_sheet, CurrentAssetKeywords)
        total_assets == Or(_sum_matching(balance_sheet, {"total asset"}), current_assets)
        total_liabilities == _sum_matching(balance_sheet, {"total liab", "debt", "loan"})
        equity == _sum_matching(balance_sheet, {"equity", "capital"})
        revenue == _sum_matching(income_statement, {"revenue", "sales", "turnover"})
        cogs == _sum_matching(income_statement, {"cost of goods", "cogs", "cost of sales"})
        gross_profit == _sum_matching(income_statement, {"gross profit"})
    IN  [ current_assets |-> current_assets,
          inventory |-> _sum_matching(balance_sheet, {"inventory"}),
          current_liabilities |-> _sum_matching(balance_sheet, {"current liab", "payable"}),
          total_assets |-> total_assets,
          total_liabilities |-> total_liabilities,
          equity |->
              IF ~Truthy(equity) /\ Truthy(total_assets) /\ Truthy(total_liabilities)
              THEN Minus(total_assets, total_liabilities) ELSE equity,
          receivables |-> _sum_matching(balance_sheet, {"receivable", "debtors"}),
          payables |-> _sum_matching(balance_sheet, {"payable", "creditors"}),
          revenue |-> revenue,
          cogs |-> cogs,
          gross_profit |->
              IF ~Truthy(gross_profit) /\ Truthy(revenue) /\ Truthy(cogs)
              THEN Minus(revenue, cogs) ELSE gross_profit,
          net_income |-> _sum_matching(income_statement,
                              {"net income", "net profit", "profit after tax"}),
          operating_income |-> _sum_matching(income_statement, {"operating income", "ebit"}),
          interest_expense |-> _sum_matching(income_statement,
                              {"interest expense", "interest paid"}) ]

(***************************************************************************)
(* Ratio calculator (engines/financial_health.py)                          *)
(***************************************************************************)
\* values.get(k) or 0, as hundredths
OrZero(x) == IF Truthy(x) THEN x.v ELSE 0

ZeroDivisionError == [t |-> "ZeroDivisionError", v |-> 0]

\* round(n / d, 2) on floats, n in ten-thousandths and d in hundredths
Divide(n, d) == IF d = 0 THEN ZeroDivisionError ELSE PyFloat(RoundDiv(n, d))

\* a ratio function whose guard lets a zero denominator through
GuardedRatioFromZero(num, den, factor) ==
    IF OrZero(den) >= 0
    THEN Divide(OrZero(num) * factor * 100, OrZero(den))
    ELSE None

\* round(num / den * factor, 2) when den > 0, else None
GuardedRatio(num, den, factor) ==
    IF OrZero(den) > 0
    THEN Divide(OrZero(num) * factor * 100, OrZero(den))
    ELSE None

_calculate_current_ratio(values) ==
    GuardedRatio(values.current_assets, values.current_liabilities, 1)

_calculate_quick_ratio(values) ==
    IF OrZero(values.current_liabilities) > 0
    THEN Divide((OrZero(values.current_assets) - OrZero(values.inventory)) * 100,
                OrZero(values.current_liabilities))
    ELSE None

_calculate_gross_margin(values) == GuardedRatio(values.gross_profit, values.revenue, 100)

_calculate_net_margin(values) == GuardedRatio(values.net_income, values.revenue, 100)

_calculate_roa(values) == GuardedRatio(values.net_income, values.total_assets, 100)

_calculate_roe(values) == GuardedRatio(values.net_income, values.equity, 100)

_calculate_inventory_turnover(values) == GuardedRatio(values.cogs, values.inventory, 1)

_calculate_receivables_days(values) == GuardedRatio(values.receivables, values.revenue, 365)

_calculate_payables_days(values) == GuardedRatio(values.payables, values.cogs, 365)

_calculate_debt_to_equity(values) == GuardedRatio(values.total_liabilities, values.equity, 1)

_calculate_interest_coverage(values) ==
    GuardedRatio(values.operating_income, values.interest_expense, 1)

\* base 50, +20 if net income > 0, +15 if current ratio > 1.5, else +10 if > 1.0
_calculate_cash_flow_stability(values) ==
    LET current_ratio == _calculate_current_ratio(values)
        score == 50 + (IF OrZero(values.net_income) > 0 THEN 20 ELSE 0)
                    + (IF Truthy(current_ratio) /\ current_ratio.v > 150 THEN 15
                       ELSE IF Truthy(current_ratio) /\ current_ratio.v > 100 THEN 10
                       ELSE 0)
    IN  PyInt(Min(score, 100))

\* receivables days + inventory days - payables days; inventory days is
\* 365 / inventory_turnover, or 0 when the turnover is None or not positive
_calculate_cash_conversion_cycle(values) ==
    LET receivables_days == OrZero(_calculate_receivables_days(values))
        inventory_turnover == _calculate_inventory_turnover(values)
        payables_days == OrZero(_calculate_payables_days(values))
    IN  IF Truthy(inventory_turnover) /\ inventory_turnover.v > 0
        THEN Divide((receivables_days - payables_days) * inventory_turnover.v
                      + 365 * 100 * 100, inventory_turnover.v)
        ELSE IF receivables_days = 0 /\ payables_days = 0 THEN PyInt(0)
        ELSE PyFloat(receivables_days - payables_days)

(***************************************************************************)
(* Health scorer (engines/financial_health.py)                             *)
(* avg_net_margin is the industry benchmark's average net margin, a        *)
(* Decimal read from the record store, or None when the industry has no    *)
(* IndustryBenchmark row.  Scores are summed in thousandths of a point.    *)
(***************************************************************************)
liquidity_score(m) ==
    IF Truthy(m.current_ratio)
    THEN IF m.current_ratio.v >= 200 THEN 100
         ELSE IF m.current_ratio.v >= 150 THEN 80
         ELSE IF m.current_ratio.v >= 100 THEN 60
         ELSE 40
    ELSE 0

\* the benchmark branch that divides net_margin by the benchmark average
BelowBenchmark(m, avg_net_margin) ==
    Truthy(m.net_margin) /\ Truthy(avg_net_margin) /\ m.net_margin.v < avg_net_margin.v

\* profitability_score * 30 / 100 in thousandths, outside the dividing branch
profitability_points(m, avg_net_margin) ==
    IF ~Truthy(m.net_margin) THEN 0
    ELSE IF Truthy(avg_net_margin) THEN 30000
    ELSE IF m.net_margin.v >= 1500 THEN 30000
    ELSE IF m.net_margin.v >= 1000 THEN 24000
    ELSE IF m.net_margin.v >= 500 THEN 18000
    ELSE 12000

efficiency_score(m) ==
    IF Truthy(m.receivables_days)
    THEN IF m.receivables_days.v <= 3000 THEN 100
         ELSE IF m.receivables_days.v <= 6000 THEN 70
         ELSE IF m.receivables_days.v <= 9000 THEN 50
         ELSE 30
    ELSE 50

solvency_score(m) ==
    IF Truthy(m.debt_to_equity)
    THEN IF m.debt_to_equity.v <= 50 THEN 100
         ELSE IF m.debt_to_equity.v <= 100 THEN 80
         ELSE IF m.debt_to_equity.v <= 200 THEN 60
         ELSE 40
    ELSE 50

\* score is a float from the liquidity term on; adding a Decimal term to it, or
\* dividing a float net margin by the Decimal benchmark, raises TypeError
HealthScoreRaises(m, avg_net_margin) ==
    \/ BelowBenchmark(m, avg_net_margin)
         /\ \/ Mixed(m.net_margin, avg_net_margin)
            \/ ArithType(m.net_margin, avg_net_margin) = "Decimal"
    \/ Truthy(m.cash_flow_stability) /\ m.cash_flow_stability.t = "Decimal"

_calculate_health_score(m, avg_net_margin) ==
    IF HealthScoreRaises(m, avg_net_margin) THEN TypeError
    ELSE LET fixed == liquidity_score(m) * 200 + efficiency_score(m) * 200
                        + solvency_score(m) * 200
                        + (IF Truthy(m.cash_flow_stability)
                           THEN m.cash_flow_stability.v ELSE 0)
             \* int(min(score, 100)) over the common denominator den
             den == IF BelowBenchmark(m, avg_net_margin) /\ avg_net_margin.v > 0
                    THEN avg_net_margin.v ELSE 1
             num == IF BelowBenchmark(m, avg_net_margin) /\ avg_net_margin.v > 0
                    THEN fixed * den + Min(m.net_margin.v * 30000, 30000 * den)
                    ELSE fixed + profitability_points(m, avg_net_margin)
             capped == Min(num, 100000 * den)
         IN  PyInt(IF capped >= 0 THEN capped \div (1000 * den)
                   ELSE -((-capped) \div (1000 * den)))

(***************************************************************************)
(* Credit risk assessor (engines/credit_risk.py)                           *)
(***************************************************************************)
\* max(0, min(100, risk)): the int bound is returned when risk reaches it
Clamp0to100(risk) ==
    IF risk.v >= 10000 THEN PyInt(100)
    ELSE IF risk.v <= 0 THEN PyInt(0)
    ELSE risk

_assess_cash_flow_risk(m) ==
    LET base == IF Truthy(m.cash_flow_stability)
                THEN [t |-> m.cash_flow_stability.t, v |-> 10000 - m.cash_flow_stability.v]
                ELSE PyInt(50)
        adjust == IF Truthy(m.current_ratio) /\ m.current_ratio.v < 100 THEN 2000
                  ELSE IF Truthy(m.current_ratio) /\ m.current_ratio.v > 200 THEN -2000
                  ELSE 0
    IN  Clamp0to100([t |-> base.t, v |-> base.v + adjust])

_assess_debt_servicing_risk(m) ==
    LET coverage == IF Truthy(m.interest_coverage)
                    THEN IF m.interest_coverage.v >= 500 THEN 10
                         ELSE IF m.interest_coverage.v >= 300 THEN 30
                         ELSE IF m.interest_coverage.v >= 150 THEN 50
                         ELSE 80
                    ELSE 50
        leverage == IF Truthy(m.debt_to_equity) /\ m.debt_to_equity.v > 300 THEN 20
                    ELSE IF Truthy(m.debt_to_equity) /\ m.debt_to_equity.v > 200 THEN 10
                    ELSE 0
    IN  Clamp0to100(PyInt(coverage + leverage))

_assess_concentration_risk(company) ==
    IF company.industry \in {"manufacturing", "retail"} THEN PyInt(30)
    ELSE IF company.industry \in {"services"} THEN PyInt(50)
    ELSE PyInt(40)

_assess_compliance_risk(company) ==
    PyInt(Min(100, 20 + (IF company.gst_number = "" THEN 30 ELSE 0)
                      + (IF company.pan_number = "" THEN 20 ELSE 0)))

\* a score that adds the cash-flow risk instead of its inverse
_calculate_credit_score_uninverted(m, cf_risk, debt_risk, conc_risk, comp_risk) ==
    IF \E r \in {cf_risk, debt_risk, conc_risk, comp_risk} : r.t = "Decimal"
    THEN TypeError
    ELSE LET score == IF Truthy(m.health_score) THEN m.health_score.v ELSE 5000
             final_score == score * 60
                            + cf_risk.v * 12 + (10000 - debt_risk.v) * 16
                            + (10000 - conc_risk.v) * 6 + (10000 - comp_risk.v) * 6
         IN  PyInt(Min(1000000, Max(0, final_score)) \div 10000)

\* a score returned without the int() truncation
_calculate_credit_score_untruncated(m, cf_risk, debt_risk, conc_risk, comp_risk) ==
    IF \E r \in {cf_risk, debt_risk, conc_risk, comp_risk} : r.t = "Decimal"
    THEN TypeError
    ELSE LET score == IF Truthy(m.health_score) THEN m.health_score.v ELSE 5000
             final_score == score * 60
                            + (10000 - cf_risk.v) * 12 + (10000 - debt_risk.v) * 16
                            + (10000 - conc_risk.v) * 6 + (10000 - comp_risk.v) * 6
         IN  PyFloat(RoundDiv(Min(1000000, Max(0, final_score)), 100))

\* (100 - risk) * 0.3 with a Decimal risk raises TypeError (Decimal * float)
_calculate_credit_score(m, cf_risk, debt_risk, conc_risk, comp_risk) ==
    IF \E r \in {cf_risk, debt_risk, conc_risk, comp_risk} : r.t = "Decimal"
    THEN TypeError
    ELSE LET score == IF Truthy(m.health_score) THEN m.health_score.v ELSE 5000
             \* final_score in 1/10000: score*0.6 + 0.4*(0.3, 0.4, 0.15, 0.15 weighted)
             final_score == score * 60
                            + (10000 - cf_risk.v) * 12 + (10000 - debt_risk.v) * 16
                            + (10000 - conc_risk.v) * 6 + (10000 - comp_risk.v) * 6
         IN  PyInt(Min(1000000, Max(0, final_score)) \div 10000)

\* bands with the AA bound compared strictly
_determine_credit_rating_strict(credit_score) ==
    IF credit_score.v >= 8500 THEN "AAA"
    ELSE IF credit_score.v > 7500 THEN "AA"
    ELSE IF credit_score.v >= 6500 THEN "A"
    ELSE IF credit_score.v >= 5500 THEN "BBB"
    ELSE IF credit_score.v >= 4500 THEN "BB"
    ELSE IF credit_score.v >= 3500 THEN "B"
    ELSE "C"

_determine_credit_rating(credit_score) ==
    IF credit_score.v >= 8500 THEN "AAA"
    ELSE IF credit_score.v >= 7500 THEN "AA"
    ELSE IF credit_score.v >= 6500 THEN "A"
    ELSE IF credit_score.v >= 5500 THEN "BBB"
    ELSE IF credit_score.v >= 4500 THEN "BB"
    ELSE IF credit_score.v >= 3500 THEN "B"
    ELSE "C"

\* 25% of the annual revenue times the score's multiplier (1.5, 1.0, 0.5, 0.25,
\* here in hundredths), or None
_calculate_recommended_loan(company, m, credit_score) ==
    IF Truthy(company.annual_revenue)
    THEN LET multiplier == IF credit_score.v >= 7500 THEN 150
                           ELSE IF credit_score.v >= 6000 THEN 100
                           ELSE IF credit_score.v >= 4500 THEN 50
                           ELSE 25
             \* revenue * 0.25 * multiplier in hundredths: revenue * multiplier / 4
             revenue == company.annual_revenue.v
         IN  PyFloat((revenue \div 4) * multiplier
                     + RoundDiv((revenue % 4) * multiplier, 4))
    ELSE None

_calculate_recommended_tenure(credit_score) ==
    IF credit_score.v >= 7500 THEN PyInt(36)
    ELSE IF credit_score.v >= 6000 THEN PyInt(24)
    ELSE IF credit_score.v >= 4500 THEN PyInt(12)
    ELSE PyInt(6)

_calculate_stress_probability(credit_score, m) ==
    LET base_prob == (10000 - credit_score.v)
                     + (IF Truthy(m.current_ratio) /\ m.current_ratio.v < 100
                        THEN 2000 ELSE 0)
    IN  PyFloat(Min(10000, base_prob))

_identify_risk_factors(m, company) ==
    (IF Truthy(m.current_ratio) /\ m.current_ratio.v < 100
     THEN <<"Low liquidity - current ratio below 1.0">> ELSE <<>>)
    \o (IF Truthy(m.debt_to_equity) /\ m.debt_to_equity.v > 200
        THEN <<"High leverage - debt to equity above 2.0">> ELSE <<>>)
    \o (IF Truthy(m.net_margin) /\ m.net_margin.v < 500
        THEN <<"Low profitability - net margin below 5%">> ELSE <<>>)
    \o (IF Truthy(m.receivables_days) /\ m.receivables_days.v > 9000
        THEN <<"Slow collections - receivables over 90 days">> ELSE <<>>)
    \o (IF company.gst_number = ""
        THEN <<"GST registration not provided">> ELSE <<>>)

\* assess_credit: the CreditAssessment it creates, or the exception it raises
\* (company_id and metrics_id are the foreign keys of the new row)
assess_credit(company_id, company, metrics_id, m) ==
    LET cash_flow_risk == _assess_cash_flow_risk(m)
        debt_servicing_risk == _assess_debt_servicing_risk(m)
        concentration_risk == _assess_concentration_risk(company)
        compliance_risk == _assess_compliance_risk(company)
        credit_score == _calculate_credit_score(m, cash_flow_risk, debt_servicing_risk,
                                                concentration_risk, compliance_risk)
    IN  IF credit_score = TypeError
        THEN [raised |-> "TypeError"]
        ELSE [ raised |-> "",
               company |-> company_id,
               metrics |-> metrics_id,
               credit_rating |-> _determine_credit_rating(credit_score),
               credit_score |-> credit_score,
               cash_flow_risk |-> cash_flow_risk,
               debt_servicing_risk |-> debt_servicing_risk,
               concentration_risk |-> concentration_risk,
               compliance_risk |-> compliance_risk,
               recommended_loan_amount |->
                   _calculate_recommended_loan(company, m, credit_score),
               recommended_tenure_months |-> _calculate_recommended_tenure(credit_score),
               probability_of_stress |-> _calculate_stress_probability(credit_score, m),
               risk_factors |-> _identify_risk_factors(m, company) ]

(***************************************************************************)
(* Data ingestion (services/data_ingestion.py)                             *)
(* An uploaded file is [kind |-> "missing"] (no file stored with the row), *)
(* [kind |-> "unreadable"], a data frame [kind |-> "frame", columns, rows] *)
(* (a row maps each column to a cell) or [kind |-> "pdf", tables] (a table *)
(* is [header, rows], a row is [key, value]).  A cell is a number or Text. *)
(***************************************************************************)
Text == [t |-> "str", v |-> 0]

\* str(v) of a cell, as kept in raw_rows
Str(cell) == [t |-> "str", v |-> cell.v]

\* pd.to_numeric(column, errors='coerce').dropna(): the row indexes that are numeric
NumericRows(df, col) == {i \in 1..Len(df.rows) : IsNum(df.rows[i][col])}

RECURSIVE SumCells(_, _, _)
SumCells(df, col, idx) ==
    IF idx = {} THEN 0
    ELSE LET i == CHOOSE x \in idx : TRUE
         IN  df.rows[i][col].v + SumCells(df, col, idx \ {i})

\* values.iloc[-1]
latest_value(df, col) ==
    LET idx == NumericRows(df, col)
    IN  PyFloat(df.rows[CHOOSE i \in idx : \A j \in idx : j <= i][col].v)

\* values.mean(), to the hundredth
avg_value(df, col) ==
    LET idx == NumericRows(df, col)
    IN  PyFloat(RoundDiv(SumCells(df, col, idx), Cardinality(idx)))

\* the statement section a column goes to ("" when the column is skipped)
ColumnSection(df, col) ==
    LET col_lower == Strip(Lower(col))
    IN  IF col_lower \in {"date", "period", "month", "year"} THEN ""
        ELSE IF NumericRows(df, col) = {} THEN ""
        ELSE IF AnyIn(col_lower, {"asset", "cash", "inventory", "receivable",
                                  "equipment", "property"}) THEN "balance_sheet"
        ELSE IF AnyIn(col_lower, {"liability", "liabilities", "payable", "debt", "loan",
                                  "equity", "capital"}) THEN "balance_sheet"
        ELSE IF AnyIn(col_lower, {"revenue", "sales", "income", "expense", "cost",
                                  "profit", "loss"}) THEN "income_statement"
        ELSE IF AnyIn(col_lower, {"cash flow", "operating", "investing", "financing"})
             THEN "cash_flow"
        ELSE "income_statement"

_normalize_dataframe(df) ==
    [ balance_sheet |->
          [c \in {x \in df.columns : ColumnSection(df, x) = "balance_sheet"}
              |-> latest_value(df, c)],
      income_statement |->
          [c \in {x \in df.columns : ColumnSection(df, x) = "income_statement"}
              |-> avg_value(df, c)],
      cash_flow |->
          [c \in {x \in df.columns : ColumnSection(df, x) = "cash_flow"}
              |-> avg_value(df, c)],
      raw_rows |-> [i \in 1..Len(df.rows) |-> [c \in df.columns |-> Str(df.rows[i][c])]] ]

\* _parse_table: the rows after the header whose value parses as a float; a later
\* row with the same key replaces an earlier one
_parse_table(table) ==
    LET good == {i \in 1..Len(table.rows) : IsNum(table.rows[i].value)}
        keys == {Strip(table.rows[i].key) : i \in good}
        last(k) == CHOOSE i \in good :
                      /\ Strip(table.rows[i].key) = k
                      /\ \A j \in good : Strip(table.rows[j].key) = k => j <= i
    IN  [k \in keys |-> PyFloat(table.rows[last(k)].value.v)]

\* the section a PDF table is stored in, by its header row ("" when in none)
TableSection(table) ==
    LET header == Lower(table.header)
    IN  IF Contains(header, "balance") \/ Contains(header, "asset") THEN "balance_sheet"
        ELSE IF Contains(header, "income") \/ Contains(header, "revenue")
             THEN "income_statement"
        ELSE IF Contains(header, "cash") THEN "cash_flow"
        ELSE ""

\* the last table of a section wins
PdfSection(tables, section) ==
    LET idx == {i \in 1..Len(tables) : TableSection(tables[i]) = section}
    IN  IF idx = {} THEN EmptySection
        ELSE _parse_table(tables[CHOOSE i \in idx : \A j \in idx : j <= i])

_process_pdf(file) ==
    [ balance_sheet |-> PdfSection(file.tables, "balance_sheet"),
      income_statement |-> PdfSection(file.tables, "income_statement"),
      cash_flow |-> PdfSection(file.tables, "cash_flow") ]

Raise(message) == [raised |-> TRUE, message |-> message]
Return(data) == [raised |-> FALSE, data |-> data]

\* process_file: the normalized data, or the ValueError it raises
process_file(fd) ==
    IF fd.file.kind = "missing"
    THEN Raise("The 'file' attribute has no file associated with it.")
    ELSE IF fd.file_type = "csv"
    THEN IF fd.file.kind = "frame" THEN Return(_normalize_dataframe(fd.file))
         ELSE Raise("Error processing CSV: " \o fd.file.kind)
    ELSE IF fd.file_type = "xlsx"
    THEN IF fd.file.kind = "frame" THEN Return(_normalize_dataframe(fd.file))
         ELSE Raise("Error processing Excel: " \o fd.file.kind)
    ELSE IF fd.file_type = "pdf"
    THEN IF fd.file.kind = "pdf" THEN Return(_process_pdf(fd.file))
         ELSE Raise("Error processing PDF: " \o fd.file.kind)
    ELSE Raise("Unsupported file type: " \o fd.file_type)

\* validate_data: some section is non-empty (no caller in the repository)
validate_data(data) ==
    \/ DOMAIN data.balance_sheet # {}
    \/ DOMAIN data.income_statement # {}
    \/ DOMAIN data.cash_flow # {}

(***************************************************************************)
(* The record store at start: companies, industry benchmarks and uploaded  *)
(* statements.  Amt(n) is the amount n.00 (statement amounts stay below    *)
(* 600 so that the scaled products fit 32-bit integers).                   *)
(***************************************************************************)
Amt(n) == PyFloat(n * 100)

\* Company rows (models.py 10-39; the first two as in seed_data.py 24-35, 58-68).
\* gst_number / pan_number "" stand for a missing (null or blank) number;
\* annual_revenue is in whole currency units (not hundredths).
Company ==
    <<
      [ name |-> "TechManufacturing Pvt Ltd", industry |-> "manufacturing",
        gst_number |-> "29ABCDE1234F1Z5", pan_number |-> "ABCDE1234F",
        annual_revenue |-> Decimal(50000000) ],
      [ name |-> "ServicePro Consulting", industry |-> "services",
        gst_number |-> "07RSTUV3456W7X8", pan_number |-> "RSTUV3456W",
        annual_revenue |-> Decimal(45000000) ],
      [ name |-> "New Logistics Co", industry |-> "logistics",
        gst_number |-> "", pan_number |-> "",
        annual_revenue |-> None ]
    >>

CompanyIds == DOMAIN Company

\* IndustryBenchmark.objects.get(industry=...).avg_net_margin, None when the
\* industry has no benchmark row (DoesNotExist)
BenchmarkNetMargin(industry) ==
    IF industry = "manufacturing" THEN Decimal(800) ELSE None

StrongFrame ==
    [ kind |-> "frame",
      columns |-> {"Period", "Cash", "Inventory", "Accounts Receivable",
                   "Accounts Payable", "Total Liabilities", "Equity", "Revenue",
                   "COGS", "Net Income", "EBIT", "Interest Expense"},
      rows |-> << ("Period" :> Text) @@ ("Cash" :> Amt(50)) @@ ("Inventory" :> Amt(30))
                  @@ ("Accounts Receivable" :> Amt(20))
                  @@ ("Accounts Payable" :> Amt(40))
                  @@ ("Total Liabilities" :> Amt(80)) @@ ("Equity" :> Amt(120))
                  @@ ("Revenue" :> Amt(200)) @@ ("COGS" :> Amt(120))
                  @@ ("Net Income" :> Amt(40)) @@ ("EBIT" :> Amt(50))
                  @@ ("Interest Expense" :> Amt(5)) >> ]

ThinFrame ==
    [ kind |-> "frame",
      columns |-> {"Month", "Cash", "Trade Payables", "Sales", "Net Profit"},
      rows |-> << ("Month" :> Text) @@ ("Cash" :> Amt(25)) @@ ("Trade Payables" :> Amt(20))
                  @@ ("Sales" :> Amt(100)) @@ ("Net Profit" :> Amt(4)),
                  ("Month" :> Text) @@ ("Cash" :> Amt(30)) @@ ("Trade Payables" :> Amt(20))
                  @@ ("Sales" :> Amt(100)) @@ ("Net Profit" :> Amt(6)) >> ]

\* a sheet without a numeric column
NotesFrame ==
    [ kind |-> "frame",
      columns |-> {"Period", "Notes"},
      rows |-> << ("Period" :> Amt(2023)) @@ ("Notes" :> Text),
                  ("Period" :> Amt(2024)) @@ ("Notes" :> Text) >> ]

\* a net loss, and liabilities above assets
LossFrame ==
    [ kind |-> "frame",
      columns |-> {"Cash", "Accounts Payable", "Bank Loan", "Revenue", "Net Income"},
      rows |-> << ("Cash" :> Amt(10)) @@ ("Accounts Payable" :> Amt(20))
                  @@ ("Bank Loan" :> Amt(30)) @@ ("Revenue" :> Amt(100))
                  @@ ("Net Income" :> Amt(-10)) >> ]

\* the statement of an earlier, smaller year: a quarter of StrongFrame's revenue
EarlyFrame ==
    [ kind |-> "frame",
      columns |-> {"Cash", "Accounts Receivable", "Accounts Payable", "Revenue", "COGS",
                   "Net Income"},
      rows |-> << ("Cash" :> Amt(10)) @@ ("Accounts Receivable" :> Amt(15))
                  @@ ("Accounts Payable" :> Amt(20)) @@ ("Revenue" :> Amt(50))
                  @@ ("COGS" :> Amt(40)) @@ ("Net Income" :> Amt(2)) >> ]

PdfStatement ==
    [ kind |-> "pdf",
      tables |-> << [ header |-> "['Balance Sheet', 'Amount']",
                      rows |-> << [key |-> " Cash ", value |-> Amt(90)],
                                  [key |-> "Accounts Payable", value |-> Amt(100)],
                                  [key |-> "Note", value |-> Text] >> ],
                    [ header |-> "['Income Statement', 'Amount']",
                      rows |-> << [key |-> "Revenue", value |-> Amt(100)],
                                  [key |-> "COGS", value |-> Amt(60)],
                                  [key |-> "Net Income", value |-> Amt(2)] >> ] >> ]

\* FinancialData rows as uploaded (models.py 42-64): raw_data null, processed False
Uploaded(company, file_type, file) ==
    [ company |-> company, file_type |-> file_type, file |-> file,
      raw_data |-> None, processed |-> FALSE ]

Uploads ==
    << Uploaded(1, "csv", StrongFrame),
       Uploaded(1, "xlsx", ThinFrame),
       Uploaded(2, "xlsx", ThinFrame),
       Uploaded(2, "csv", NotesFrame),
       Uploaded(3, "csv", LossFrame),
       Uploaded(3, "pdf", PdfStatement),
       Uploaded(3, "csv", [kind |-> "unreadable"]),
       Uploaded(2, "txt", StrongFrame),
       Uploaded(1, "csv", [kind |-> "missing"]) >>

(***************************************************************************)
(* calculate_metrics and the REST actions (engines/financial_health.py,    *)
(* views.py).  Every write to the record store is its own step: the store  *)
(* commits each create() and save() as it is made.                         *)
(***************************************************************************)
MaxMetrics == 2
MaxAssessments == 1

Section(raw_data, name) ==
    IF name \in DOMAIN raw_data THEN raw_data[name] ELSE EmptySection

\* the FinancialMetrics instance calculate_metrics builds, before its health score
ComputedMetrics(fd_pk, fd) ==
    LET values == _extract_values(Section(fd.raw_data, "balance_sheet"),
                                  Section(fd.raw_data, "income_statement"),
                                  Section(fd.raw_data, "cash_flow"))
    IN  [ company |-> fd.company,
          financial_data |-> fd_pk,
          current_ratio |-> _calculate_current_ratio(values),
          quick_ratio |-> _calculate_quick_ratio(values),
          gross_margin |-> _calculate_gross_margin(values),
          net_margin |-> _calculate_net_margin(values),
          roa |-> _calculate_roa(values),
          roe |-> _calculate_roe(values),
          inventory_turnover |-> _calculate_inventory_turnover(values),
          receivables_days |-> _calculate_receivables_days(values),
          payables_days |-> _calculate_payables_days(values),
          debt_to_equity |-> _calculate_debt_to_equity(values),
          interest_coverage |-> _calculate_interest_coverage(values),
          cash_flow_stability |-> _calculate_cash_flow_stability(values),
          cash_conversion_cycle |-> _calculate_cash_conversion_cycle(values),
          health_score |-> None ]

RatioFields ==
    {"current_ratio", "quick_ratio", "gross_margin", "net_margin", "roa", "roe",
     "inventory_turnover", "receivables_days", "payables_days", "debt_to_equity",
     "interest_coverage", "cash_flow_stability", "cash_conversion_cycle"}

\* the row as the store holds it: every DecimalField reads back as a Decimal,
\* the IntegerField health_score as an int
Stored(m) ==
    [f \in DOMAIN m |-> IF f \in RatioFields THEN FromDb(m[f]) ELSE m[f]]

\* the first row under an ascending ordering: the id of the company's oldest row
OldestMetricsId(rows, c) ==
    LET ids == {i \in 1..Len(rows) : rows[i].company = c}
    IN  IF ids = {} THEN 0 ELSE CHOOSE i \in ids : \A j \in ids : i <= j

\* FinancialMetrics.objects.filter(company=c).first() under ordering -calculated_at:
\* the id of the company's newest row, 0 when it has none
LatestMetricsId(rows, c) ==
    LET ids == {i \in 1..Len(rows) : rows[i].company = c}
    IN  IF ids = {} THEN 0 ELSE CHOOSE i \in ids : \A j \in ids : j <= i

Response(view, arg, status, message, id) ==
    [view |-> view, arg |-> arg, status |-> status, message |-> message, id |-> id]

Idle == [pc |-> "idle", pk |-> 0, id |-> 0, m |-> None]

\* the row of a view that marks the upload processed before it calls process_file
IngestedRowMarkedFirst(fd, normalized_data) ==
    IF normalized_data.raised THEN [fd EXCEPT !.processed = TRUE]
    ELSE [fd EXCEPT !.raw_data = normalized_data.data, !.processed = TRUE]

\* the row of a view that drops the uploaded file once it is processed
IngestedRowConsumingFile(fd, normalized_data) ==
    IF normalized_data.raised THEN fd
    ELSE [fd EXCEPT !.raw_data = normalized_data.data, !.processed = TRUE,
                    !.file = [kind |-> "missing"]]

\* the FinancialData row after the view's try block has run process_file: the
\* assignments to raw_data and processed come after the call, so an exception
\* leaves the row as it was
IngestedRow(fd, normalized_data) ==
    IF normalized_data.raised THEN fd
    ELSE [fd EXCEPT !.raw_data = normalized_data.data, !.processed = TRUE]

\* process, first part: process_file, then raw_data and processed are saved
ProcessIngest(pk) ==
    /\ proc.pc = "idle"
    /\ Len(metrics) < MaxMetrics
    /\ LET normalized_data == process_file(financial_data[pk])
       IN  /\ financial_data' = [financial_data EXCEPT
                                    ![pk] = IngestedRow(financial_data[pk], normalized_data)]
           /\ IF normalized_data.raised
              THEN /\ response' = Response("process", pk, 400, normalized_data.message, 0)
                   /\ UNCHANGED proc
              ELSE /\ proc' = [pc |-> "saved", pk |-> pk, id |-> 0, m |-> None]
                   /\ UNCHANGED response
    /\ UNCHANGED <<metrics, assessments, recommendations, forecasts, call>>

\* calculate_metrics, FinancialMetrics.objects.create: the row is stored
\* without a health score
ProcessCreateMetrics ==
    /\ proc.pc = "saved"
    /\ LET m == ComputedMetrics(proc.pk, financial_data[proc.pk])
       IN  /\ metrics' = Append(metrics, Stored(m))
           /\ proc' = [pc |-> "created", pk |-> proc.pk, id |-> Len(metrics) + 1, m |-> m]
    /\ UNCHANGED <<financial_data, assessments, recommendations, forecasts, response, call>>

\* calculate_metrics, _calculate_health_score and metrics.save(); an exception
\* ends the request with the error response
ProcessScore ==
    /\ proc.pc = "created"
    /\ LET industry == Company[proc.m.company].industry
           health_score == _calculate_health_score(proc.m, BenchmarkNetMargin(industry))
       IN  IF health_score = TypeError
           THEN /\ response' = Response("process", proc.pk, 400,
                      "unsupported operand type(s) for /: 'float' and 'decimal.Decimal'", 0)
                /\ UNCHANGED metrics
           ELSE /\ metrics' = [metrics EXCEPT ![proc.id].health_score = health_score]
                /\ response' = Response("process", proc.pk, 200,
                                        "Data processed successfully", proc.id)
    /\ proc' = Idle
    /\ UNCHANGED <<financial_data, assessments, recommendations, forecasts, call>>

NoAssessment == [raised |-> "none"]

\* an assess without the "if not metrics" return: assess_credit is handed None
\* and the handler reports the AttributeError it raises
AssessOutcomeUnguarded(company_id, rows) ==
    IF company_id = 0
    THEN [status |-> 400, message |-> "company_id required", assessment |-> NoAssessment]
    ELSE IF company_id \notin CompanyIds
    THEN [status |-> 404, message |-> "Not found.", assessment |-> NoAssessment]
    ELSE LET metrics_id == LatestMetricsId(rows, company_id)
         IN  IF metrics_id = 0
             THEN [status |-> 400,
                   message |-> "'NoneType' object has no attribute 'cash_flow_stability'",
                   assessment |-> NoAssessment]
             ELSE LET assessment == assess_credit(company_id, Company[company_id],
                                                  metrics_id, rows[metrics_id])
                  IN  IF assessment.raised # ""
                      THEN [status |-> 400,
                            message |-> "unsupported operand type(s) for *: 'decimal.Decimal' and 'float'",
                            assessment |-> NoAssessment]
                      ELSE [status |-> 200, message |-> "", assessment |-> assessment]

\* CreditAssessmentViewSet.assess for the request's company_id (0: not given):
\* the response's status and message and the assessment created, if any
AssessOutcome(company_id, rows) ==
    IF company_id = 0
    THEN [status |-> 400, message |-> "company_id required", assessment |-> NoAssessment]
    ELSE IF company_id \notin CompanyIds
    THEN [status |-> 404, message |-> "Not found.", assessment |-> NoAssessment]
    ELSE LET metrics_id == LatestMetricsId(rows, company_id)
         IN  IF metrics_id = 0
             THEN [status |-> 400,
                   message |-> "No financial metrics found. Please process financial data first.",
                   assessment |-> NoAssessment]
             ELSE LET assessment == assess_credit(company_id, Company[company_id],
                                                  metrics_id, rows[metrics_id])
                  IN  IF assessment.raised # ""
                      THEN [status |-> 400,
                            message |-> "unsupported operand type(s) for *: 'decimal.Decimal' and 'float'",
                            assessment |-> NoAssessment]
                      ELSE [status |-> 200, message |-> "", assessment |-> assessment]

Assess(company_id) ==
    /\ Len(assessments) < MaxAssessments
    /\ LET outcome == AssessOutcome(company_id, metrics)
       IN  IF outcome.assessment = NoAssessment
           THEN /\ response' = Response("assess", company_id, outcome.status,
                                        outcome.message, 0)
                /\ UNCHANGED assessments
           ELSE /\ assessments' = Append(assessments, outcome.assessment)
                /\ response' = Response("assess", company_id, outcome.status,
                                        outcome.message, Len(assessments) + 1)
    /\ UNCHANGED <<financial_data, metrics, recommendations, forecasts, proc, call>>

\* the company ids a request may carry: none (0), a company, an unknown id
RequestCompanyIds == {0} \cup CompanyIds \cup {Len(Company) + 1}

\* no engine function has been called on its own
NoCall == [fn |-> "none"]

Init ==
    /\ financial_data = Uploads
    /\ metrics = <<>>
    /\ assessments = <<>>
    /\ recommendations = <<>>
    /\ forecasts = <<>>
    /\ proc = Idle
    /\ response = Response("none", 0, 0, "", 0)
    /\ call = NoCall

Next ==
    \/ \E pk \in DOMAIN financial_data : ProcessIngest(pk)
    \/ ProcessCreateMetrics
    \/ ProcessScore
    \/ \E company_id \in RequestCompanyIds : Assess(company_id)

Spec == Init /\ [][Next]_vars

(***************************************************************************)
(* The ratio calculator on its own: the thirteen ratio functions applied   *)
(* to a dict of extracted values.  The dicts are a full statement with up  *)
(* to three entries absent or zero.                                        *)
(***************************************************************************)
ValueFields ==
    {"current_assets", "inventory", "current_liabilities", "total_assets",
     "total_liabilities", "equity", "receivables", "payables", "revenue", "cogs",
     "gross_profit", "net_income", "operating_income", "interest_expense"}

FullValues ==
    [ current_assets |-> Amt(100), inventory |-> Amt(30), current_liabilities |-> Amt(40),
      total_assets |-> Amt(250), total_liabilities |-> Amt(100), equity |-> Amt(150),
      receivables |-> Amt(20), payables |-> Amt(40), revenue |-> Amt(200),
      cogs |-> Amt(120), gross_profit |-> Amt(80), net_income |-> Amt(30),
      operating_income |-> Amt(50), interest_expense |-> Amt(10) ]

\* the sets of at most three fields
FewFields ==
    {{a, b, c} : a \in ValueFields, b \in ValueFields, c \in ValueFields} \cup {{}}

\* values with the entries of some fields replaced by None or by 0.0
ExtractedValues ==
    UNION {{[f \in ValueFields |-> IF f \in DOMAIN gone THEN gone[f] ELSE FullValues[f]] :
               gone \in [fields -> {None, PyFloat(0)}]} : fields \in FewFields}

AllRatios(values) ==
    [ current_ratio |-> _calculate_current_ratio(values),
      quick_ratio |-> _calculate_quick_ratio(values),
      gross_margin |-> _calculate_gross_margin(values),
      net_margin |-> _calculate_net_margin(values),
      roa |-> _calculate_roa(values),
      roe |-> _calculate_roe(values),
      inventory_turnover |-> _calculate_inventory_turnover(values),
      receivables_days |-> _calculate_receivables_days(values),
      payables_days |-> _calculate_payables_days(values),
      debt_to_equity |-> _calculate_debt_to_equity(values),
      interest_coverage |-> _calculate_interest_coverage(values),
      cash_flow_stability |-> _calculate_cash_flow_stability(values),
      cash_conversion_cycle |-> _calculate_cash_conversion_cycle(values) ]

CallRatios(values) ==
    /\ call' = [fn |-> "ratios", values |-> values, result |-> AllRatios(values)]
    /\ UNCHANGED <<financial_data, metrics, assessments, recommendations, forecasts, proc,
                   response>>

\* income statements over four labels; "Cost of Sales" also counts as revenue,
\* its lower-cased label containing "sales"
IncomeLabels == {"Revenue", "COGS", "Cost of Sales", "Gross Profit"}
IncomeCells == {Amt(0), Amt(600), Amt(1000), Amt(1200), Text}
IncomeStatements == UNION {[labels -> IncomeCells] : labels \in SUBSET IncomeLabels}

\* calculate_metrics on an income statement alone, up to the gross margin
CallGrossMargin(income_statement) ==
    LET values == _extract_values(EmptySection, income_statement, EmptySection)
    IN  /\ call' = [fn |-> "_calculate_gross_margin",
                    income_statement |-> income_statement,
                    values |-> values,
                    result |-> _calculate_gross_margin(values)]
        /\ UNCHANGED <<financial_data, metrics, assessments, recommendations, forecasts, proc,
                   response>>

\* one call per behaviour
NextRatios ==
    /\ call = NoCall
    /\ \/ \E values \in ExtractedValues : CallRatios(values)
       \/ \E income_statement \in IncomeStatements : CallGrossMargin(income_statement)

SpecRatios == Init /\ [][NextRatios]_vars

\* the denominator each ratio divides by
Denominator ==
    [ current_ratio |-> "current_liabilities", quick_ratio |-> "current_liabilities",
      gross_margin |-> "revenue", net_margin |-> "revenue", roa |-> "total_assets",
      roe |-> "equity", inventory_turnover |-> "inventory",
      receivables_days |-> "revenue", payables_days |-> "cogs",
      debt_to_equity |-> "equity", interest_coverage |-> "interest_expense" ]

\* C4: every ratio formula yields no value when its denominator is zero or
\* absent, the inventory-days term of the cash conversion cycle contributes 0
\* when the inventory turnover has no value or is zero, and no ratio ends in
\* a division error
C4_ZeroDenominators ==
    call.fn = "ratios"
        => /\ \A r \in DOMAIN Denominator :
                 ~Truthy(call.values[Denominator[r]]) => call.result[r] = None
           /\ \A r \in DOMAIN call.result : call.result[r] # ZeroDivisionError
           /\ ~Truthy(call.result.inventory_turnover)
                 => call.result.cash_conversion_cycle.v
                       = OrZero(call.result.receivables_days)
                           - OrZero(call.result.payables_days)

\* C4 happened: the ratios were computed from values without revenue and
\* with a zero inventory, and the ratios over other denominators have values
C4_Witness ==
    /\ call.fn = "ratios"
    /\ call.values.revenue = None
    /\ call.values.inventory = PyFloat(0)
    /\ call.result.net_margin = None
    /\ call.result.inventory_turnover = None
    /\ Truthy(call.result.current_ratio)
    /\ Truthy(call.result.payables_days)
    /\ call.result.cash_conversion_cycle.v = 0 - call.result.payables_days.v


\* the labels of a statement that contain one of the keywords, and the total
\* of their numeric amounts
Labelled(data_dict, keywords) == {k \in DOMAIN data_dict : AnyIn(Lower(k), keywords)}
LabelTotal(data_dict, keywords) ==
    SumAmounts(data_dict, {k \in Labelled(data_dict, keywords) : IsNum(data_dict[k])})
RevenueKeywords == {"revenue", "sales", "turnover"}
CogsKeywords == {"cost of goods", "cogs", "cost of sales"}

\* C14 as stated: an income statement with a revenue label and a COGS label
\* and no gross-profit label gets gross_profit = revenue - cogs and a gross
\* margin of (revenue - cogs) / revenue x 100
C14_BackFillByLabel ==
    LET inc == call.income_statement
        revenue == LabelTotal(inc, RevenueKeywords)
        cogs == LabelTotal(inc, CogsKeywords)
    IN  /\ call.fn = "_calculate_gross_margin"
        /\ Labelled(inc, RevenueKeywords) # {}
        /\ Labelled(inc, CogsKeywords) # {}
        /\ Labelled(inc, {"gross profit"}) = {}
        /\ revenue > 0
        => /\ call.values.gross_profit = PyFloat(revenue - cogs)
           /\ call.result = Divide((revenue - cogs) * 10000, revenue)

\* C14, amended: when the revenue labels and the COGS labels both have a
\* positive total and there is no gross-profit label, extraction back-fills
\* gross_profit = revenue - cogs and the gross margin is
\* (revenue - cogs) / revenue x 100 rounded to 2 places; Revenue 1000 and
\* COGS 600 give exactly 40.0
C14_BackFillOfPositiveTotals ==
    LET inc == call.income_statement
        revenue == LabelTotal(inc, RevenueKeywords)
        cogs == LabelTotal(inc, CogsKeywords)
    IN  call.fn = "_calculate_gross_margin"
        => /\ (/\ Labelled(inc, {"gross profit"}) = {}
               /\ revenue > 0
               /\ cogs > 0)
              => /\ call.values.revenue = PyFloat(revenue)
                 /\ call.values.cogs = PyFloat(cogs)
                 /\ call.values.gross_profit = PyFloat(revenue - cogs)
                 /\ call.result = Divide((revenue - cogs) * 10000, revenue)
           /\ inc = [k \in {"Revenue", "COGS"} |->
                        IF k = "Revenue" THEN Amt(1000) ELSE Amt(600)]
              => call.result = PyFloat(4000)

\* C14 happened: the gross margin of {"Revenue": 1000, "COGS": 600} was computed
\* from a back-filled gross profit of 400
C14_Witness ==
    /\ call.fn = "_calculate_gross_margin"
    /\ DOMAIN call.income_statement = {"Revenue", "COGS"}
    /\ call.income_statement["Revenue"] = Amt(1000)
    /\ call.income_statement["COGS"] = Amt(600)
    /\ call.values.gross_profit = Amt(400)
    /\ call.result = PyFloat(4000)

(***************************************************************************)
(* Extraction and the ratios on statement sections: calculate_metrics on a *)
(* balance sheet alone and on an income statement alone.  A cell is an     *)
(* amount, zero and negative amounts included.                             *)
(***************************************************************************)
\* without a total-assets label total_assets falls back on current_assets
BalanceLabels == {"Cash", "Inventory", "Accounts Payable", "Total Liabilities"}
BalanceCells == {Amt(-200), Amt(0), Amt(300), Amt(1000)}
BalanceSheets == UNION {[labels -> BalanceCells] : labels \in SUBSET BalanceLabels}

ProfitLabels == {"Revenue", "COGS", "Net Income", "Net Profit"}
ProfitCells == {Amt(-300), Amt(0), Amt(20), Amt(600)}
ProfitStatements == UNION {[labels -> ProfitCells] : labels \in SUBSET ProfitLabels}

\* calculate_metrics on a balance sheet alone, up to the liquidity ratios
CallLiquidity(balance_sheet) ==
    LET values == _extract_values(balance_sheet, EmptySection, EmptySection)
    IN  /\ call' = [fn |-> "liquidity",
                    balance_sheet |-> balance_sheet,
                    values |-> values,
                    current_ratio |-> _calculate_current_ratio(values),
                    quick_ratio |-> _calculate_quick_ratio(values)]
        /\ UNCHANGED <<financial_data, metrics, assessments, recommendations, forecasts, proc,
                       response>>

\* calculate_metrics on an income statement alone, up to the net margin, and
\* the risk factors of the row it stores
CallNetMargin(company_id, income_statement) ==
    LET values == _extract_values(EmptySection, income_statement, EmptySection)
        net_margin == _calculate_net_margin(values)
    IN  /\ call' = [fn |-> "_calculate_net_margin",
                    company |-> company_id,
                    income_statement |-> income_statement,
                    values |-> values,
                    net_margin |-> net_margin,
                    risk_factors |->
                        _identify_risk_factors(
                            [ current_ratio |-> None, debt_to_equity |-> None,
                              net_margin |-> FromDb(net_margin),
                              receivables_days |->
                                  FromDb(_calculate_receivables_days(values)) ],
                            Company[company_id])]
        /\ UNCHANGED <<financial_data, metrics, assessments, recommendations, forecasts, proc,
                       response>>

\* one call per behaviour
NextExtract ==
    /\ call = NoCall
    /\ \/ \E balance_sheet \in BalanceSheets : CallLiquidity(balance_sheet)
       \/ \E income_statement \in ProfitStatements : CallNetMargin(1, income_statement)

SpecExtract == Init /\ [][NextExtract]_vars

\* C26: after extraction, the back-filling of gross_profit and equity
\* included, no canonical field holds the value zero: every field is absent
\* or a non-zero amount, for every bundle (revenue equal to COGS, total assets
\* equal to total liabilities)
C26_NoZeroField ==
    call.fn \in {"liquidity", "_calculate_net_margin"}
        => \A f \in DOMAIN call.values :
              call.values[f] = None \/ (IsNum(call.values[f]) /\ call.values[f].v # 0)

\* C29: a net margin computed from an extracted bundle is never negative: a
\* net-income total that is not positive is extracted as None and gives a net
\* margin of 0 when the revenue is positive, so the row gets no negative
\* margin and no 'Low profitability' risk factor
C29_NetMarginNotNegative ==
    call.fn = "_calculate_net_margin"
        => LET inc == call.income_statement
               revenue == LabelTotal(inc, RevenueKeywords)
               net_income == LabelTotal(inc, {"net income", "net profit", "profit after tax"})
           IN  /\ call.net_margin = None \/ call.net_margin.v >= 0
               /\ net_income <= 0
                    => /\ call.values.net_income = None
                       /\ revenue > 0 => call.net_margin = PyFloat(0)
                       /\ \A i \in DOMAIN call.risk_factors :
                             call.risk_factors[i] # "Low profitability - net margin below 5%"

\* C29 happened: a statement with revenue and a net loss got the net margin 0
\* and no low-profitability flag
C29_Witness ==
    /\ call.fn = "_calculate_net_margin"
    /\ "Revenue" \in DOMAIN call.income_statement
    /\ call.income_statement["Revenue"] = Amt(600)
    /\ "Net Income" \in DOMAIN call.income_statement
    /\ call.income_statement["Net Income"] = Amt(-300)
    /\ "Net Profit" \notin DOMAIN call.income_statement
    /\ call.values.net_income = None
    /\ call.net_margin = PyFloat(0)
    /\ call.risk_factors = <<>>

\* C30: on a balance sheet whose amounts are all non-negative the extracted
\* inventory never exceeds the extracted current_assets, so whenever
\* current_liabilities > 0 the ratios satisfy 0 <= quick_ratio <= current_ratio
C30_QuickRatioBelowCurrent ==
    call.fn = "liquidity"
      /\ (\A k \in DOMAIN call.balance_sheet :
             IsNum(call.balance_sheet[k]) => call.balance_sheet[k].v >= 0)
        => /\ call.values.inventory # None
                => /\ call.values.current_assets # None
                   /\ call.values.inventory.v <= call.values.current_assets.v
           /\ call.values.current_liabilities # None
                => /\ call.values.current_liabilities.v > 0
                   /\ IsNum(call.quick_ratio) /\ IsNum(call.current_ratio)
                   /\ 0 <= call.quick_ratio.v
                   /\ call.quick_ratio.v <= call.current_ratio.v

\* C30 happened: cash 300, inventory 1000 and payables 1000 gave a quick ratio
\* of 0.3 under a current ratio of 1.3
C30_Witness ==
    /\ call.fn = "liquidity"
    /\ DOMAIN call.balance_sheet = {"Cash", "Inventory", "Accounts Payable"}
    /\ call.balance_sheet["Cash"] = Amt(300)
    /\ call.balance_sheet["Inventory"] = Amt(1000)
    /\ call.balance_sheet["Accounts Payable"] = Amt(1000)
    /\ call.values.inventory = Amt(1000)
    /\ call.values.current_assets = Amt(1300)
    /\ call.quick_ratio = PyFloat(30)
    /\ call.current_ratio = PyFloat(130)

(***************************************************************************)
(* The health scorer on its own: _calculate_health_score applied to the    *)
(* metrics object calculate_metrics hands it (float ratios as the ratio    *)
(* functions return them, the int cash_flow_stability) and the industry's  *)
(* benchmark average as the record store returns it.                       *)
(***************************************************************************)
FloatOrNone(hundredths) == {None} \cup {PyFloat(h) : h \in hundredths}

HealthMetrics ==
    [ current_ratio : FloatOrNone({0, 99, 100, 149, 150, 199, 200, 250}),
      net_margin : FloatOrNone({0, 250, 499, 500, 799, 800, 999, 1000, 1499, 1500, 2000}),
      receivables_days : FloatOrNone({0, 3000, 3001, 6000, 6001, 9000, 9001}),
      debt_to_equity : FloatOrNone({0, 50, 51, 100, 101, 200, 201}),
      cash_flow_stability : {PyInt(50), PyInt(70), PyInt(85)} ]

\* no IndustryBenchmark row, a row with a zero average, rows with an average
BenchmarkAverages == {None, Decimal(0), Decimal(800)}

CallHealthScore(m, avg_net_margin) ==
    /\ call' = [fn |-> "_calculate_health_score",
                metrics |-> m,
                avg_net_margin |-> avg_net_margin,
                result |-> _calculate_health_score(m, avg_net_margin)]
    /\ UNCHANGED <<financial_data, metrics, assessments, recommendations, forecasts, proc,
                   response>>

\* one call per behaviour
NextHealth ==
    /\ call = NoCall
    /\ \E m \in HealthMetrics, avg_net_margin \in BenchmarkAverages :
          CallHealthScore(m, avg_net_margin)

SpecHealth == Init /\ [][NextHealth]_vars

\* C1: _calculate_health_score returns an integer in [0, 100] and never
\* raises, for every combination of metric values and with the industry
\* benchmark present or absent
C1_HealthScoreTotal ==
    call.fn = "_calculate_health_score"
        => /\ call.result.t = "int"
           /\ 0 <= call.result.v
           /\ call.result.v <= 100 * 100

\* int(min(score, 100)) of the weighted component scores (weights 20, 30, 20,
\* 20 and 10 for the cash-flow stability), as a score in hundredths
Weighted(liquidity, profitability, efficiency, solvency, cash_flow_stability) ==
    LET score == (liquidity * 20 + profitability * 30 + efficiency * 20
                    + solvency * 20) * 100 + OrZero(cash_flow_stability) * 10
    IN  PyInt(Min(score, 1000000) \div 10000)

\* C19: the profitability, efficiency and solvency components score 50 when
\* their ratio is unavailable and the liquidity component scores 0 when
\* current_ratio is unavailable, so with every ratio absent and no benchmark
\* the score is the weighted sum of these defaults
C19_AbsentDefaults ==
    /\ call.fn = "_calculate_health_score"
    /\ call.avg_net_margin = None
    /\ call.metrics.current_ratio = None
    /\ call.metrics.net_margin = None
    /\ call.metrics.receivables_days = None
    /\ call.metrics.debt_to_equity = None
    => call.result = Weighted(0, 50, 50, 50, call.metrics.cash_flow_stability)

\* the tables of the specification, for a ratio value in hundredths
LiquidityTable(v) == IF v >= 200 THEN 100 ELSE IF v >= 150 THEN 80
                     ELSE IF v >= 100 THEN 60 ELSE 40
ProfitabilityTable(v) == IF v >= 1500 THEN 100 ELSE IF v >= 1000 THEN 80
                         ELSE IF v >= 500 THEN 60 ELSE 40
EfficiencyTable(v) == IF v <= 3000 THEN 100 ELSE IF v <= 6000 THEN 70
                      ELSE IF v <= 9000 THEN 50 ELSE 30
SolvencyTable(v) == IF v <= 50 THEN 100 ELSE IF v <= 100 THEN 80
                    ELSE IF v <= 200 THEN 60 ELSE 40

\* C20: without an industry benchmark every tiered component equals its
\* table value for every present ratio value, the value 0 included, so with
\* the four ratios present the score is the weighted sum of the table values
C20_TieredComponents ==
    /\ call.fn = "_calculate_health_score"
    /\ call.avg_net_margin = None
    /\ call.metrics.current_ratio # None
    /\ call.metrics.net_margin # None
    /\ call.metrics.receivables_days # None
    /\ call.metrics.debt_to_equity # None
    => call.result = Weighted(LiquidityTable(call.metrics.current_ratio.v),
                              ProfitabilityTable(call.metrics.net_margin.v),
                              EfficiencyTable(call.metrics.receivables_days.v),
                              SolvencyTable(call.metrics.debt_to_equity.v),
                              call.metrics.cash_flow_stability)

(***************************************************************************)
(* The credit engine on its own.  The risk sub-scores the engine passes to *)
(* _calculate_credit_score without raising are ints; assess_credit is      *)
(* applied to FinancialMetrics rows as the record store returns them.      *)
(***************************************************************************)
RiskLevels == {0, 1, 30, 50, 99, 100}

HealthScores == {None, PyInt(0), PyInt(33), PyInt(88), PyInt(100)}

\* sub-scores <<cash flow, debt servicing, concentration, compliance>>
Risks == [1..4 -> RiskLevels]

CreditScoreOf(health_score, risks) ==
    _calculate_credit_score([health_score |-> health_score], PyInt(risks[1]),
                            PyInt(risks[2]), PyInt(risks[3]), PyInt(risks[4]))

\* two calls that differ in one sub-score, the second with the higher risk
CallCreditScorePair(health_score, risks, k, higher) ==
    /\ higher > risks[k]
    /\ call' = [fn |-> "_calculate_credit_score",
                health_score |-> health_score,
                risks |-> risks,
                raised |-> k,
                higher |-> higher,
                result |-> CreditScoreOf(health_score, risks),
                result_higher |-> CreditScoreOf(health_score, [risks EXCEPT ![k] = higher])]
    /\ UNCHANGED <<financial_data, metrics, assessments, recommendations, forecasts, proc,
                   response>>

CallCreditRating(credit_score) ==
    /\ call' = [fn |-> "_determine_credit_rating",
                credit_score |-> credit_score,
                result |-> _determine_credit_rating(PyInt(credit_score))]
    /\ UNCHANGED <<financial_data, metrics, assessments, recommendations, forecasts, proc,
                   response>>

DecimalOrNone(hundredths) == {None} \cup {Decimal(h) : h \in hundredths}

AssessMetrics ==
    [ company : {0},
      health_score : HealthScores,
      cash_flow_stability : DecimalOrNone({0, 5000, 7850, 8500, 10000}),
      current_ratio : DecimalOrNone({80, 150, 250}),
      interest_coverage : DecimalOrNone({100, 400, 600}),
      debt_to_equity : DecimalOrNone({67, 250, 350}),
      net_margin : DecimalOrNone({300, 1200}),
      receivables_days : DecimalOrNone({4500, 9500}) ]

\* the seed metrics of company 1 (TechManufacturing Pvt Ltd), Decimals as the
\* seed script writes them and as the store returns them
SeedMetrics ==
    [ company |-> 0,
      health_score |-> PyInt(82),
      cash_flow_stability |-> Decimal(7850),
      current_ratio |-> Decimal(180),
      interest_coverage |-> Decimal(520),
      debt_to_equity |-> Decimal(90),
      net_margin |-> Decimal(1230),
      receivables_days |-> Decimal(4200) ]

CallAssessCredit(company_id, m) ==
    /\ call' = [fn |-> "assess_credit",
                company |-> company_id,
                metrics |-> m,
                result |-> assess_credit(company_id, Company[company_id], 1,
                                         [m EXCEPT !.company = company_id])]
    /\ UNCHANGED <<financial_data, metrics, assessments, recommendations, forecasts, proc,
                   response>>

\* one call per behaviour
NextCredit ==
    \/ /\ call = NoCall
       /\ \E health_score \in HealthScores, risks \in Risks, k \in 1..4,
             higher \in RiskLevels :
             CallCreditScorePair(health_score, risks, k, higher)
    \/ /\ call = NoCall
       /\ \E credit_score \in 0..100 : CallCreditRating(credit_score)
    \/ /\ call = NoCall
       /\ \E company_id \in CompanyIds, m \in AssessMetrics \cup {SeedMetrics} :
             CallAssessCredit(company_id, m)

SpecCredit == Init /\ [][NextCredit]_vars

\* C2: the credit score never rises when one of the four risk sub-scores is
\* raised while the health score and the other three sub-scores are held
C2_CreditScoreMonotone ==
    call.fn = "_calculate_credit_score"
        => /\ call.result.t = "int"
           /\ call.result_higher.t = "int"
           /\ call.result_higher.v <= call.result.v

\* C2 happened: a higher sub-score gave a strictly lower credit score
C2_Witness ==
    /\ call.fn = "_calculate_credit_score"
    /\ call.higher > call.risks[call.raised]
    /\ call.result_higher.v < call.result.v

\* the rating the bands of the specification give a score
BandOf(score) ==
    IF score >= 85 THEN "AAA"
    ELSE IF score >= 75 THEN "AA"
    ELSE IF score >= 65 THEN "A"
    ELSE IF score >= 55 THEN "BBB"
    ELSE IF score >= 45 THEN "BB"
    ELSE IF score >= 35 THEN "B"
    ELSE "C"

\* C3: the rating of a score is AAA from 85, AA from 75, A from 65, BBB from
\* 55, BB from 45, B from 35 and C below 35
C3_RatingBands ==
    call.fn = "_determine_credit_rating"
        => call.result = BandOf(call.credit_score)

\* C3 happened: a score on a band's lower bound got that band's rating
C3_Witness ==
    /\ call.fn = "_determine_credit_rating"
    /\ call.credit_score = 75
    /\ call.result = "AA"

IsScore(x) == x.t = "int" /\ 0 <= x.v /\ x.v <= 100 * 100 /\ x.v % 100 = 0

C12_SeedAssessment ==
    call.fn = "assess_credit" /\ call.company = 1 /\ call.metrics = SeedMetrics
        => /\ call.result.raised = ""
           /\ call.result.compliance_risk = PyInt(20)
           /\ \A i \in DOMAIN call.result.risk_factors :
                 call.result.risk_factors[i] # "GST registration not provided"
           /\ call.result.credit_score = PyInt(82)
           /\ call.result.credit_rating = "AA"

(***************************************************************************)
(* The functions of the credit engine one at a time, on metrics as the     *)
(* record store returns them: Decimals, a ratio of 0.00 included, or None. *)
(***************************************************************************)
RiskFactorMetrics ==
    [ current_ratio : DecimalOrNone({0, 80, 100, 150}),
      debt_to_equity : DecimalOrNone({0, 200, 250}),
      net_margin : DecimalOrNone({-300, 0, 300, 500}),
      receivables_days : DecimalOrNone({0, 9000, 9500}) ]

CallIdentifyRiskFactors(company_id, m) ==
    /\ call' = [fn |-> "_identify_risk_factors",
                company |-> company_id,
                metrics |-> m,
                result |-> _identify_risk_factors(m, Company[company_id])]
    /\ UNCHANGED <<financial_data, metrics, assessments, recommendations, forecasts, proc,
                   response>>

\* the health scores an IntegerField holds, or None
StoredHealthScores == {None} \cup {PyInt(h) : h \in {0, 10, 33, 50, 88, 100}}

CallCreditScore(health_score, risks) ==
    /\ call' = [fn |-> "_calculate_credit_score_of",
                health_score |-> health_score,
                risks |-> risks,
                result |-> CreditScoreOf(health_score, risks)]
    /\ UNCHANGED <<financial_data, metrics, assessments, recommendations, forecasts, proc,
                   response>>

DebtMetrics ==
    [ interest_coverage : DecimalOrNone({0, 100, 149, 150, 299, 300, 499, 500, 600}),
      debt_to_equity : DecimalOrNone({0, 200, 201, 300, 301, 350}) ]

CallDebtServicingRisk(m) ==
    /\ call' = [fn |-> "_assess_debt_servicing_risk",
                metrics |-> m,
                result |-> _assess_debt_servicing_risk(m)]
    /\ UNCHANGED <<financial_data, metrics, assessments, recommendations, forecasts, proc,
                   response>>

\* the annual revenues of a company row: null, or a DecimalField value (whole units)
AnnualRevenues == {None} \cup {Decimal(r) : r \in {0, 1, 2, 3, 45000000, 50000000}}

CallLoanTerms(annual_revenue, credit_score) ==
    /\ call' = [fn |-> "_calculate_recommended_loan",
                annual_revenue |-> annual_revenue,
                credit_score |-> credit_score,
                loan |-> _calculate_recommended_loan(
                             [Company[1] EXCEPT !.annual_revenue = annual_revenue],
                             None, PyInt(credit_score)),
                tenure |-> _calculate_recommended_tenure(PyInt(credit_score))]
    /\ UNCHANGED <<financial_data, metrics, assessments, recommendations, forecasts, proc,
                   response>>

CallStressProbability(credit_score, current_ratio) ==
    /\ call' = [fn |-> "_calculate_stress_probability",
                credit_score |-> credit_score,
                current_ratio |-> current_ratio,
                result |-> _calculate_stress_probability(
                               PyInt(credit_score), [current_ratio |-> current_ratio])]
    /\ UNCHANGED <<financial_data, metrics, assessments, recommendations, forecasts, proc,
                   response>>

\* one call per behaviour
NextAssessor ==
    /\ call = NoCall
    /\ \/ \E company_id \in CompanyIds, m \in RiskFactorMetrics :
             CallIdentifyRiskFactors(company_id, m)
       \/ \E health_score \in StoredHealthScores, risks \in Risks :
             CallCreditScore(health_score, risks)
       \/ \E m \in DebtMetrics : CallDebtServicingRisk(m)
       \/ \E annual_revenue \in AnnualRevenues, credit_score \in 0..100 :
             CallLoanTerms(annual_revenue, credit_score)
       \/ \E credit_score \in 0..100, current_ratio \in DecimalOrNone({0, 50, 99, 100, 150}) :
             CallStressProbability(credit_score, current_ratio)

SpecAssessor == Init /\ [][NextAssessor]_vars

\* the flags of the specification, in its order
Flag(cond, text) == IF cond THEN <<text>> ELSE <<>>

\* C21: risk_factors is exactly the list of the triggered flags in the order
\* low liquidity, high leverage, low profitability, slow collections, missing
\* GST; a flag is in the list if and only if its condition holds on a present
\* value (current_ratio < 1.0, debt_to_equity > 2.0, net_margin < 5,
\* receivables_days > 90, GST id missing)
C21_RiskFactors ==
    call.fn = "_identify_risk_factors"
        => LET m == call.metrics
           IN  call.result
                 = Flag(m.current_ratio # None /\ m.current_ratio.v < 100,
                        "Low liquidity - current ratio below 1.0")
                   \o Flag(m.debt_to_equity # None /\ m.debt_to_equity.v > 200,
                           "High leverage - debt to equity above 2.0")
                   \o Flag(m.net_margin # None /\ m.net_margin.v < 500,
                           "Low profitability - net margin below 5%")
                   \o Flag(m.receivables_days # None /\ m.receivables_days.v > 9000,
                           "Slow collections - receivables over 90 days")
                   \o Flag(Company[call.company].gst_number = "",
                           "GST registration not provided")

\* the score of the specification, H and the four risks whole numbers:
\* 100 x (0.6 H + 0.4 (0.3 a + 0.4 b + 0.15 c + 0.15 d)) = 60 H + 12 a + 16 b + 6 c + 6 d
ClaimedCreditScore(H, risks) ==
    Min(100, Max(0, (60 * H + 12 * (100 - risks[1]) + 16 * (100 - risks[2])
                            + 6 * (100 - risks[3]) + 6 * (100 - risks[4])) \div 100))

\* C22: credit_score is the integer part of 0.6 H + 0.4 x (the weighted
\* inverted risks), clamped to [0,100], where H is the health score whenever
\* it is present (0 included) and 50 only when it is absent; hence the credit
\* score does not fall when the health score rises
C22_CreditScoreOfHealth ==
    call.fn = "_calculate_credit_score_of"
        => /\ call.result
                = PyInt(ClaimedCreditScore(IF call.health_score = None THEN 50
                                           ELSE call.health_score.v \div 100, call.risks))
           /\ \A higher \in StoredHealthScores \ {None} :
                 call.health_score # None /\ higher.v >= call.health_score.v
                     => CreditScoreOf(higher, call.risks).v >= call.result.v

\* C23: debt_servicing_risk starts from the tier of interest_coverage for
\* every present value, 0 included (>= 5: 10, >= 3: 30, >= 1.5: 50, lower: 80)
\* and from 50 only when it is absent; it adds 20 if debt_to_equity > 3, else
\* 10 if debt_to_equity > 2, and is clamped to [0,100]
C23_DebtServicingRisk ==
    call.fn = "_assess_debt_servicing_risk"
        => LET coverage == call.metrics.interest_coverage
               leverage == call.metrics.debt_to_equity
               tier == IF coverage = None THEN 50
                       ELSE IF coverage.v >= 500 THEN 10
                       ELSE IF coverage.v >= 300 THEN 30
                       ELSE IF coverage.v >= 150 THEN 50
                       ELSE 80
               added == IF leverage # None /\ leverage.v > 300 THEN 20
                        ELSE IF leverage # None /\ leverage.v > 200 THEN 10
                        ELSE 0
           IN  call.result = PyInt(Min(100, Max(0, tier + added)))

\* the multiplier of the specification in hundredths, and its tenure
ClaimedMultiplier(s) == IF s >= 75 THEN 150 ELSE IF s >= 60 THEN 100 ELSE IF s >= 45 THEN 50 ELSE 25
ClaimedTenure(s) == IF s >= 75 THEN 36 ELSE IF s >= 60 THEN 24 ELSE IF s >= 45 THEN 12 ELSE 6

\* C24: for a known annual revenue R and a credit score s the recommended
\* loan is 0.25 x R x m(s), m = 1.5 from 75, 1.0 from 60, 0.5 from 45 and 0.25
\* below, and the tenure is 36, 24, 12, 6 months on the same ranges; neither
\* falls when s rises, and the loan is absent exactly when the revenue is unknown
C24_LoanTerms ==
    call.fn = "_calculate_recommended_loan"
        => LET R == call.annual_revenue
               s == call.credit_score
               company == [Company[1] EXCEPT !.annual_revenue = R]
           IN  /\ (call.loan = None) <=> (R = None)
               /\ R # None
                    => /\ call.loan.t = "float"
                       \* 0.25 R m(s) in hundredths is R m(s) / 4 with m in hundredths
                       /\ 4 * (call.loan.v - (R.v \div 4) * ClaimedMultiplier(s))
                            - (R.v % 4) * ClaimedMultiplier(s) \in -2..2
                       /\ s < 100
                            => _calculate_recommended_loan(company, None, PyInt(s + 1)).v
                                 >= call.loan.v
               /\ call.tenure = PyInt(ClaimedTenure(s))
               /\ s < 100 => _calculate_recommended_tenure(PyInt(s + 1)).v >= call.tenure.v

\* C25: for every credit score s in [0,100] probability_of_stress is
\* min(100, (100 - s) + 20) when current_ratio is present and below 1.0 and
\* 100 - s otherwise; it lies in [0,100] and does not rise when s rises
C25_StressProbability ==
    call.fn = "_calculate_stress_probability"
        => LET s == call.credit_score
               low == call.current_ratio # None /\ call.current_ratio.v < 100
           IN  /\ call.result
                    = PyFloat(100 * (IF low THEN Min(100, (100 - s) + 20) ELSE 100 - s))
               /\ 0 <= call.result.v /\ call.result.v <= 100 * 100
               /\ s < 100
                    => _calculate_stress_probability(
                           PyInt(s + 1), [current_ratio |-> call.current_ratio]).v
                         <= call.result.v

(***************************************************************************)
(* Narrative fallback (services/ai_service.py).  A narrative is the string *)
(* the f-strings build; the Devanagari literals of the Hindi narrative are *)
(* written in Latin transliteration.                                       *)
(***************************************************************************)
TwoDigits(n) == (IF n < 10 THEN "0" ELSE "") \o ToString(n)

\* format(x, "") as an f-string applies it: an int prints its digits, a float
\* its shortest repr (12.3, 5.0), a Decimal of the store both decimal places
FormatNumber(x) ==
    LET a == IF x.v < 0 THEN -x.v ELSE x.v
        sign == IF x.v < 0 THEN "-" ELSE ""
    IN  IF x.t = "None" THEN "None"
        ELSE IF x.t = "int" THEN sign \o ToString(a \div 100)
        ELSE IF x.t = "Decimal"
        THEN sign \o ToString(a \div 100) \o "." \o TwoDigits(a % 100)
        ELSE sign \o ToString(a \div 100) \o "."
                  \o (IF a % 10 = 0 THEN ToString((a % 100) \div 10)
                      ELSE TwoDigits(a % 100))

_generate_hindi_narrative(company, m) ==
    company.name \o " ki vittiya sthiti\n\n"
    \o (IF Truthy(m.health_score)
        THEN (IF m.health_score.v >= 7500
              THEN "Aapka vyavsay utkrisht vittiya swasthya mein hai, score "
              ELSE IF m.health_score.v >= 6000
              THEN "Aapka vyavsay achchhi vittiya sthiti mein hai, score "
              ELSE "Aapke vyavsay ko dhyan dene ki aavashyakta hai, score ")
             \o FormatNumber(m.health_score) \o "/100 hai. "
        ELSE "")
    \o (IF Truthy(m.net_margin)
        THEN "Aapka shuddh laabh margin " \o FormatNumber(m.net_margin) \o "% hai. "
        ELSE "")

HealthSentence(m) ==
    IF Truthy(m.health_score)
    THEN (IF m.health_score.v >= 7500
          THEN "Your business is in excellent financial health with a score of "
          ELSE IF m.health_score.v >= 6000
          THEN "Your business is in good financial health with a score of "
          ELSE IF m.health_score.v >= 4500
          THEN "Your business has moderate financial health with a score of "
          ELSE "Your business needs attention with a financial health score of ")
         \o FormatNumber(m.health_score) \o "/100. "
    ELSE ""

LiquiditySentence(m) ==
    IF Truthy(m.current_ratio)
    THEN IF m.current_ratio.v >= 150
         THEN "You have strong liquidity to meet short-term obligations. "
         ELSE IF m.current_ratio.v >= 100
         THEN "Your liquidity is adequate but could be improved. "
         ELSE "You may face challenges meeting short-term obligations. "
    ELSE ""

MarginSentence(m) ==
    IF Truthy(m.net_margin)
    THEN "Your net profit margin is " \o FormatNumber(m.net_margin) \o "%, "
         \o (IF m.net_margin.v >= 1500 THEN "which is excellent. "
             ELSE IF m.net_margin.v >= 1000 THEN "which is good. "
             ELSE "which has room for improvement. ")
    ELSE ""

\* a narrative whose heading also names the company's industry, as the prompt
\* of the model-backed narrative does
_generate_simple_narrative_with_industry(company, m, language) ==
    IF language = "hi" THEN _generate_hindi_narrative(company, m)
    ELSE "Financial Health Summary for " \o company.name
         \o " (" \o company.industry \o ")\n\n"
         \o HealthSentence(m) \o LiquiditySentence(m) \o MarginSentence(m)

_generate_simple_narrative(company, m, language) ==
    IF language = "hi" THEN _generate_hindi_narrative(company, m)
    ELSE "Financial Health Summary for " \o company.name \o "\n\n"
         \o HealthSentence(m) \o LiquiditySentence(m) \o MarginSentence(m)

\* the text-generation collaborator as AIService finds it: not configured
\* (no GEMINI_API_KEY, self.model is None), configured with a generate_content
\* call that raises, or configured with a call that answers with a text
Collaborators ==
    { [configured |-> FALSE, raises |-> FALSE, text |-> ""],
      [configured |-> TRUE, raises |-> TRUE, text |-> ""],
      [configured |-> TRUE, raises |-> FALSE, text |-> "Generated narrative A"],
      [configured |-> TRUE, raises |-> FALSE, text |-> "Generated narrative B"] }

Narrative(text) == [raised |-> FALSE, text |-> text]

\* a generate_financial_narrative without the except branch: the exception of
\* the text-generation call reaches the caller
generate_financial_narrative_unguarded(company, m, language, collaborator) ==
    IF ~collaborator.configured
    THEN Narrative(_generate_simple_narrative(company, m, language))
    ELSE IF collaborator.raises
    THEN [raised |-> TRUE, text |-> ""]
    ELSE Narrative(collaborator.text)

\* generate_financial_narrative: what the caller gets
generate_financial_narrative(company, m, language, collaborator) ==
    IF ~collaborator.configured
    THEN Narrative(_generate_simple_narrative(company, m, language))
    ELSE IF collaborator.raises
    THEN Narrative(_generate_simple_narrative(company, m, language))
    ELSE Narrative(collaborator.text)

\* two companies of the store and a third company named like the first
NarrativeCompanies ==
    {Company[1], Company[2], [Company[1] EXCEPT !.industry = "retail"]}

\* metrics as the store returns them, and a net margin as calculate_metrics
\* leaves it on the instance it returns
NarrativeMetrics ==
    [ health_score : {None, PyInt(0), PyInt(62), PyInt(88)},
      current_ratio : DecimalOrNone({80, 250}),
      net_margin : DecimalOrNone({0, 1230, 1500}) \cup {PyFloat(1230)},
      debt_to_equity : DecimalOrNone({67}) ]

Languages == {"en", "hi"}

\* two calls in the same language
CallNarrativePair(company_a, metrics_a, company_b, metrics_b, language) ==
    /\ call' = [fn |-> "_generate_simple_narrative",
                language |-> language,
                company_a |-> company_a,
                metrics_a |-> metrics_a,
                narrative_a |-> _generate_simple_narrative(company_a, metrics_a, language),
                company_b |-> company_b,
                metrics_b |-> metrics_b,
                narrative_b |-> _generate_simple_narrative(company_b, metrics_b, language)]
    /\ UNCHANGED <<financial_data, metrics, assessments, recommendations, forecasts, proc,
                   response>>

\* two calls of generate_financial_narrative for the same company, metrics and
\* language, each finding the collaborator in some condition
CallFinancialNarrativePair(company, m, language, collaborator_a, collaborator_b) ==
    /\ call' = [fn |-> "generate_financial_narrative",
                company |-> company,
                metrics |-> m,
                language |-> language,
                collaborator_a |-> collaborator_a,
                result_a |-> generate_financial_narrative(company, m, language,
                                                          collaborator_a),
                collaborator_b |-> collaborator_b,
                result_b |-> generate_financial_narrative(company, m, language,
                                                          collaborator_b)]
    /\ UNCHANGED <<financial_data, metrics, assessments, recommendations, forecasts, proc,
                   response>>

\* one pair of calls per behaviour
NextNarrative ==
    \/ /\ call = NoCall
       /\ \E company_a \in NarrativeCompanies, company_b \in NarrativeCompanies,
             metrics_a \in NarrativeMetrics, metrics_b \in NarrativeMetrics,
             language \in Languages :
             CallNarrativePair(company_a, metrics_a, company_b, metrics_b, language)
    \/ /\ call = NoCall
       /\ \E company \in NarrativeCompanies, m \in NarrativeMetrics,
             language \in Languages,
             collaborator_a \in Collaborators, collaborator_b \in Collaborators :
             CallFinancialNarrativePair(company, m, language,
                                        collaborator_a, collaborator_b)

SpecNarrative == Init /\ [][NextNarrative]_vars

\* the two calls agree on health_score, current_ratio and net_margin (the
\* language is the same by construction)
SameFigures ==
    /\ call.metrics_a.health_score = call.metrics_b.health_score
    /\ call.metrics_a.current_ratio = call.metrics_b.current_ratio
    /\ call.metrics_a.net_margin = call.metrics_b.net_margin

Unavailable(collaborator) == ~collaborator.configured \/ collaborator.raises

\* C11: when the text-generation call raises or the collaborator is not
\* configured, generate_financial_narrative raises nothing and returns the
\* templated fallback narrative of the same company, metrics and language,
\* the same text in both cases
C11_NarrativeFallback ==
    call.fn = "generate_financial_narrative"
        => /\ Unavailable(call.collaborator_a)
                 => /\ ~call.result_a.raised
                    /\ call.result_a.text = _generate_simple_narrative(
                                               call.company, call.metrics, call.language)
           /\ Unavailable(call.collaborator_b)
                 => /\ ~call.result_b.raised
                    /\ call.result_b.text = _generate_simple_narrative(
                                               call.company, call.metrics, call.language)
           /\ Unavailable(call.collaborator_a) /\ Unavailable(call.collaborator_b)
                 => call.result_a = call.result_b

\* C11 happened: one call found the collaborator not configured, the other
\* had its text-generation call raise, and both returned the same narrative,
\* which states the score
C11_Witness ==
    /\ call.fn = "generate_financial_narrative"
    /\ ~call.collaborator_a.configured
    /\ call.collaborator_b.configured /\ call.collaborator_b.raises
    /\ call.metrics.health_score = PyInt(88)
    /\ ~call.result_a.raised /\ ~call.result_b.raised
    /\ call.result_a.text = call.result_b.text
    /\ Contains(call.result_a.text, "88/100")

(***************************************************************************)
(* Recommendation engines (engines/cost_optimizer.py,                      *)
(* engines/working_capital.py).  metrics is a FinancialMetrics row as the  *)
(* record store returns it, or None; the result is the list of the         *)
(* Recommendation rows created, in creation order.  estimated_impact is a  *)
(* float in hundredths (annual_revenue is kept in whole units).            *)
(***************************************************************************)
\* float(company.annual_revenue) * (percent / 100) if company.annual_revenue else None
EstimatedImpact(company, percent) ==
    IF Truthy(company.annual_revenue)
    THEN PyFloat(company.annual_revenue.v * percent)
    ELSE None

\* Recommendation.objects.create(...)
Recommendation(company_id, category, priority, title, description, estimated_impact, implementation_effort) ==
    [ company |-> company_id, category |-> category, priority |-> priority,
      title |-> title, description |-> description,
      estimated_impact |-> estimated_impact,
      implementation_effort |-> implementation_effort ]

\* `if cond: recommendations.append(rec)`
Rule(cond, rec) == IF cond THEN <<rec>> ELSE <<>>

\* the five rules of CostOptimizerEngine.generate_recommendations on a metrics row
CostOptimizerEngine_rules(company_id, company, m) ==
    Rule(Truthy(m.gross_margin) /\ m.gross_margin.v < 3000,
         Recommendation(company_id, "cost_optimization", "high", "Improve Gross Margin",
             "Current gross margin is " \o FormatNumber(m.gross_margin)
                 \o "%, which is below industry standards. Consider negotiating better supplier terms, reducing production costs, or optimizing pricing strategy.",
             EstimatedImpact(company, 5), "Medium - 3-6 months"))
    \o
    Rule(Truthy(m.receivables_days) /\ m.receivables_days.v > 6000,
         Recommendation(company_id, "cost_optimization", "high",
             "Reduce Receivables Collection Period",
             "Average collection period is " \o FormatNumber(m.receivables_days)
                 \o " days. Implement stricter credit policies, offer early payment discounts, or consider invoice factoring to improve cash flow.",
             EstimatedImpact(company, 3), "Low - 1-2 months"))
    \o
    Rule(Truthy(m.inventory_turnover) /\ m.inventory_turnover.v < 400,
         Recommendation(company_id, "cost_optimization", "medium",
             "Optimize Inventory Management",
             "Inventory turnover is " \o FormatNumber(m.inventory_turnover)
                 \o "x per year, indicating slow-moving stock. Implement just-in-time inventory, reduce obsolete stock, and improve demand forecasting.",
             EstimatedImpact(company, 2), "Medium - 2-4 months"))
    \o
    Rule(Truthy(m.debt_to_equity) /\ m.debt_to_equity.v > 150,
         Recommendation(company_id, "cost_optimization", "high", "Optimize Debt Structure",
             "Debt-to-equity ratio is " \o FormatNumber(m.debt_to_equity)
                 \o ", indicating high leverage. Consider refinancing high-interest debt, extending payment terms, or raising equity to reduce interest burden.",
             EstimatedImpact(company, 4), "High - 6-12 months"))
    \o
    Rule(Truthy(m.net_margin) /\ m.net_margin.v < 1000,
         Recommendation(company_id, "cost_optimization", "medium",
             "Improve Net Profit Margin",
             "Net margin is " \o FormatNumber(m.net_margin)
                 \o "%. Review operating expenses, eliminate non-essential costs, automate processes, and focus on high-margin products/services.",
             EstimatedImpact(company, 6), "Medium - 3-6 months"))

\* CostOptimizerEngine.generate_recommendations(company, metrics)
CostOptimizerEngine_generate_recommendations(company_id, company, m) ==
    IF m = None THEN <<>> ELSE CostOptimizerEngine_rules(company_id, company, m)

\* WorkingCapitalEngine.generate_recommendations(company, metrics)
WorkingCapitalEngine_generate_recommendations(company_id, company, m) ==
    IF m = None THEN <<>>
    ELSE
    Rule(Truthy(m.cash_conversion_cycle) /\ m.cash_conversion_cycle.v > 6000,
         Recommendation(company_id, "working_capital", "high",
             "Reduce Cash Conversion Cycle",
             "Cash conversion cycle is " \o FormatNumber(m.cash_conversion_cycle)
                 \o " days. Focus on faster collections, optimized inventory, and extended payables to free up working capital.",
             EstimatedImpact(company, 5), "Medium - 3-4 months"))
    \o
    Rule(Truthy(m.receivables_days) /\ m.receivables_days.v > 4500,
         Recommendation(company_id, "working_capital", "high",
             "Accelerate Receivables Collection",
             "Receivables are outstanding for " \o FormatNumber(m.receivables_days)
                 \o " days. Implement automated reminders, offer early payment incentives, or use invoice discounting services.",
             EstimatedImpact(company, 3), "Low - 1-2 months"))
    \o
    Rule(Truthy(m.payables_days) /\ m.payables_days.v < 3000,
         Recommendation(company_id, "working_capital", "medium",
             "Optimize Payment Terms with Suppliers",
             "Current payables period is " \o FormatNumber(m.payables_days)
                 \o " days. Negotiate extended payment terms with suppliers to improve cash flow without damaging relationships.",
             EstimatedImpact(company, 2), "Low - 1-2 months"))
    \o
    Rule(Truthy(m.current_ratio) /\ m.current_ratio.v < 120,
         Recommendation(company_id, "working_capital", "high",
             "Improve Liquidity Position",
             "Current ratio is " \o FormatNumber(m.current_ratio)
                 \o ", indicating tight liquidity. Consider securing a working capital line of credit, reducing short-term debt, or converting assets to cash.",
             None, "Medium - 2-3 months"))
    \o
    Rule(/\ Truthy(m.receivables_days) /\ m.receivables_days.v > 6000
         /\ Truthy(company.annual_revenue)
         /\ company.annual_revenue.v > 5000000,
         Recommendation(company_id, "working_capital", "medium",
             "Consider Invoice Discounting",
             "With receivables of " \o FormatNumber(m.receivables_days)
                 \o " days and significant revenue, invoice discounting could unlock immediate cash flow. Typical cost: 12-18% annually.",
             EstimatedImpact(company, 4), "Low - 2-4 weeks"))

(***************************************************************************)
(* The recommendation engines on their own: both engines applied to a      *)
(* company and its latest FinancialMetrics row, or to no row.              *)
(***************************************************************************)
DecimalsOrNone(S) == {None} \cup {Decimal(h) : h \in S}

\* the fields of a FinancialMetrics row the engines read
RecommendationMetrics ==
    [ gross_margin : DecimalsOrNone({-2000, 0, 2500, 2999, 3000}),
      receivables_days : DecimalsOrNone({4200, 6100}),
      inventory_turnover : DecimalsOrNone({350}),
      debt_to_equity : {Decimal(90), Decimal(160)},
      net_margin : {Decimal(800), Decimal(1230)},
      cash_conversion_cycle : {Decimal(4000), Decimal(7500)},
      payables_days : {Decimal(2500), Decimal(4500)},
      current_ratio : {Decimal(110), Decimal(180)} ]

CallGenerateRecommendations(company_id, m) ==
    /\ call' = [fn |-> "generate_recommendations",
                company |-> company_id,
                metrics |-> m,
                cost_recs |-> CostOptimizerEngine_generate_recommendations(
                                  company_id, Company[company_id], m),
                wc_recs |-> WorkingCapitalEngine_generate_recommendations(
                                  company_id, Company[company_id], m)]
    /\ UNCHANGED <<financial_data, metrics, assessments, recommendations, forecasts, proc,
                   response>>

\* one call per behaviour
NextRecommend ==
    /\ call = NoCall
    /\ \E company_id \in CompanyIds, m \in RecommendationMetrics \cup {None} :
           CallGenerateRecommendations(company_id, m)

SpecRecommend == Init /\ [][NextRecommend]_vars

\* the positions of the recommendations with a title
Titled(recs, title) == {i \in DOMAIN recs : recs[i].title = title}

\* C13: for every metrics record whose gross_margin is present and below 30
\* and every company with a known annual revenue R, the cost optimizer creates
\* exactly one recommendation titled 'Improve Gross Margin', with priority high
\* and an estimated impact of 5% of R; a gross margin of 25 and R = 50,000,000
\* give an impact of 2,500,000
C13_ImproveGrossMargin ==
    LET company == Company[call.company]
        recs == call.cost_recs
    IN  /\ call.fn = "generate_recommendations"
        /\ call.metrics # None
        /\ call.metrics.gross_margin # None
        /\ call.metrics.gross_margin.v < 3000
        /\ company.annual_revenue # None
        => /\ Cardinality(Titled(recs, "Improve Gross Margin")) = 1
           /\ \A i \in Titled(recs, "Improve Gross Margin") :
                 /\ recs[i].priority = "high"
                 /\ recs[i].estimated_impact = PyFloat(company.annual_revenue.v * 5)

(***************************************************************************)
(* Forecasting engine (engines/forecasting.py).  Amounts are floats in     *)
(* hundredths; a growth rate is a float in percent.  The monthly values    *)
(* are kept as exact fractions until round(value, 2): a fraction is        *)
(* [n, d] with d > 0.  A month is its offset from the month of the         *)
(* request.  The growth rate is taken to the whole percent.                *)
(***************************************************************************)
RECURSIVE Pow(_, _)
Pow(b, e) == IF e = 0 THEN 1 ELSE b * Pow(b, e - 1)

\* _extract_revenue: float(value) of the first key that names revenue and has a
\* numeric value (a statement of the store has at most one such key)
_extract_revenue(income_statement) ==
    LET keys == {k \in DOMAIN income_statement :
                    /\ AnyIn(Lower(k), {"revenue", "sales", "turnover"})
                    /\ IsNum(income_statement[k])}
    IN  IF keys = {} THEN None
        ELSE PyFloat(income_statement[CHOOSE k \in keys : TRUE].v)

\* _extract_expenses: the total of the numeric values whose key names an
\* expense, None unless it is positive
_extract_expenses(income_statement) ==
    _sum_matching(income_statement, {"expense", "cost", "expenditure"})

\* ((recent_rev / old_rev) ** (1 / periods) - 1) * 100 for positive revenues,
\* the root taken to two decimal places
GrowthRate(recent_rev, old_rev, periods) ==
    LET root == CHOOSE x \in 0..1000 :
                    /\ Pow(x, periods) * old_rev <= recent_rev * Pow(100, periods)
                    /\ Pow(x + 1, periods) * old_rev > recent_rev * Pow(100, periods)
    IN  PyFloat((root - 100) * 100)

\* the historical dict of _get_historical_data for the revenues and expenses
\* found, most recent first
HistoricalData(revenue, expenses) ==
    [ revenue |-> revenue,
      expenses |-> expenses,
      growth_rate |->
          IF Len(revenue) >= 2
          THEN GrowthRate(revenue[1].v, revenue[Len(revenue)].v, Len(revenue))
          ELSE PyInt(0) ]

\* the revenues (field "revenue") or expenses (field "expenses") found in the
\* processed rows pk, pk - 1, ..., 1 of the company (order_by('-period_end'):
\* the uploads are in period order)
RECURSIVE Extracted(_, _, _, _)
Extracted(rows, company_id, pk, field) ==
    IF pk = 0 THEN <<>>
    ELSE LET data == rows[pk]
             income_stmt == Section(data.raw_data, "income_statement")
             value == IF data.company = company_id /\ data.processed
                         /\ data.raw_data # None
                      THEN IF field = "revenue" THEN _extract_revenue(income_stmt)
                           ELSE _extract_expenses(income_stmt)
                      ELSE None
         IN  (IF Truthy(value) THEN <<value>> ELSE <<>>)
                 \o Extracted(rows, company_id, pk - 1, field)

_get_historical_data(rows, company_id) ==
    HistoricalData(Extracted(rows, company_id, Len(rows), "revenue"),
                   Extracted(rows, company_id, Len(rows), "expenses"))

Scenarios == <<"best", "base", "worst">>

\* the growth rate in whole percent
Percent(growth_rate) == growth_rate.v \div 100

\* the annual revenue and expense growth of a scenario, in percent:
\* revenue_growth * 100 and expense_growth * 100
revenue_growth(historical, scenario) ==
    IF scenario = "best" THEN Percent(historical.growth_rate) + 5
    ELSE IF scenario = "base" THEN Percent(historical.growth_rate)
    ELSE Percent(historical.growth_rate) - 5

expense_growth(historical, scenario) ==
    IF scenario = "best" THEN Percent(historical.growth_rate) - 2
    ELSE IF scenario = "base" THEN Percent(historical.growth_rate)
    ELSE Percent(historical.growth_rate) + 3

\* float(company.annual_revenue or 1000000), in whole units
AnnualRevenue(company) ==
    IF Truthy(company.annual_revenue) THEN company.annual_revenue.v ELSE 1000000

\* monthly_revenue = base_revenue / 12, where base_revenue is
\* historical['revenue'][0] if historical['revenue'] else the annual revenue
monthly_revenue(company, historical) ==
    IF Len(historical.revenue) > 0
    THEN [n |-> historical.revenue[1].v, d |-> 12]
    ELSE [n |-> AnnualRevenue(company) * 25, d |-> 3]

\* monthly_expenses = base_expenses / 12, where base_expenses is
\* historical['expenses'][0] if historical['expenses'] else base_revenue * 0.7
monthly_expenses(company, historical) ==
    IF Len(historical.expenses) > 0
    THEN [n |-> historical.expenses[1].v, d |-> 12]
    ELSE IF Len(historical.revenue) = 0
    THEN [n |-> AnnualRevenue(company) * 35, d |-> 6]
    ELSE IF historical.revenue[1].v % 10 = 0
    THEN [n |-> (historical.revenue[1].v \div 10) * 7, d |-> 12]
    ELSE [n |-> historical.revenue[1].v * 7, d |-> 120]

\* a projection that grows by rate/12 of the base each month without compounding
ProjectedLinear(monthly, growth, i) ==
    IF i = 0 THEN monthly
    ELSE [n |-> monthly.n * (1200 + i * growth), d |-> monthly.d * 1200]

\* monthly * ((1 + growth/12) ** i), growth in percent
Projected(monthly, growth, i) ==
    [n |-> monthly.n * Pow(1200 + growth, i), d |-> monthly.d * Pow(1200, i)]

\* round(x, 2) of a fraction of hundredths
Round2(x) == PyFloat(RoundDiv(x.n, x.d))
\* round(x - y, 2) of two fractions of hundredths whose denominators divide
\* one another: the whole parts are subtracted apart from the remainders
RoundedDifference(x, y) ==
    LET d == Max(x.d, y.d)
        whole == (x.n \div x.d) - (y.n \div y.d)
        n == (x.n % x.d) * (d \div x.d) - (y.n % y.d) * (d \div y.d)
        q == whole + (n \div d)
        r == n % d
    IN  PyFloat(IF 2 * r < d THEN q
                ELSE IF 2 * r > d THEN q + 1
                ELSE IF q % 2 = 0 THEN q ELSE q + 1)

\* f"{growth*100:.1f}" for a whole percent
OneDecimal(percent) ==
    (IF percent < 0 THEN "-" \o ToString(-percent) ELSE ToString(percent)) \o ".0"

_generate_assumptions(scenario, revenue_percent, expense_percent, industry) ==
    "Forecast Scenario: "
    \o (IF scenario = "best" THEN "BEST" ELSE IF scenario = "base" THEN "BASE" ELSE "WORST")
    \o "\n\nKey Assumptions:\n"
    \o "- Revenue Growth Rate: " \o OneDecimal(revenue_percent) \o "% annually\n"
    \o "- Expense Growth Rate: " \o OneDecimal(expense_percent) \o "% annually\n"
    \o "- Industry: " \o industry \o "\n"
    \o "- Seasonality: Not factored (uniform monthly distribution)\n"
    \o "- External Factors: Stable economic conditions assumed\n\nScenario Details:\n\n"
    \o (IF scenario = "best"
        THEN "- Strong market demand\n- Successful new product launches\n- Improved operational efficiency\n- Favorable market conditions"
        ELSE IF scenario = "base"
        THEN "- Steady market conditions\n- Consistent operational performance\n- Normal competitive environment\n- No major disruptions"
        ELSE "- Market headwinds\n- Increased competition\n- Rising input costs\n- Potential operational challenges")

\* the Forecast row _generate_scenario_forecast creates
_generate_scenario_forecast(company_id, company, historical, months, scenario) ==
    LET projected_revenue(i) ==
            Projected(monthly_revenue(company, historical),
                      revenue_growth(historical, scenario), i)
        projected_expenses(i) ==
            Projected(monthly_expenses(company, historical),
                      expense_growth(historical, scenario), i)
    IN  [ company |-> company_id,
          scenario |-> scenario,
          forecast_months |-> months,
          revenue_forecast |->
              [k \in 1..months |-> [month |-> k - 1,
                                    value |-> Round2(projected_revenue(k - 1))]],
          expense_forecast |->
              [k \in 1..months |-> [month |-> k - 1,
                                    value |-> Round2(projected_expenses(k - 1))]],
          cash_flow_forecast |->
              [k \in 1..months |->
                  [month |-> k - 1,
                   value |-> RoundedDifference(projected_revenue(k - 1),
                                               projected_expenses(k - 1))]],
          assumptions |->
              _generate_assumptions(scenario, revenue_growth(historical, scenario),
                                    expense_growth(historical, scenario),
                                    company.industry) ]

\* generate_forecasts: the best, base and worst forecasts, in creation order
generate_forecasts(company_id, company, rows, months) ==
    LET historical_data == _get_historical_data(rows, company_id)
    IN  [s \in 1..3 |-> _generate_scenario_forecast(company_id, company, historical_data,
                                                    months, Scenarios[s])]

(***************************************************************************)
(* The forecaster on its own: _generate_scenario_forecast applied to the   *)
(* historical dict of a company's statements.  The revenues are below      *)
(* 13.00 so that three months of compounding fit 32-bit integers; the      *)
(* growth rates they give are -20, 0, 10 and 100 percent.                  *)
(***************************************************************************)
HistoricalRevenues ==
    { <<>>, <<PyFloat(1000)>>, <<PyFloat(1000), PyFloat(1000)>>,
      <<PyFloat(1210), PyFloat(1000)>>, <<PyFloat(640), PyFloat(1000)>>,
      <<PyFloat(1240), PyFloat(310)>> }
HistoricalExpenses == { <<>>, <<PyFloat(840)>>, <<PyFloat(1250), PyFloat(840)>> }
ForecastMonths == 0..3

CallScenarioForecast(company_id, revenue, expenses, months, scenario) ==
    LET historical == HistoricalData(revenue, expenses)
    IN  /\ call' = [fn |-> "_generate_scenario_forecast",
                    company |-> company_id,
                    historical |-> historical,
                    months |-> months,
                    scenario |-> scenario,
                    result |-> _generate_scenario_forecast(
                                   company_id, Company[company_id], historical,
                                   months, scenario)]
        /\ UNCHANGED <<financial_data, metrics, assessments, recommendations, forecasts,
                       proc, response>>

\* one call per behaviour; without a revenue history the base is the company's
\* annual revenue, which fits for the first month only
NextForecast ==
    /\ call = NoCall
    /\ \E company_id \in CompanyIds, revenue \in HistoricalRevenues,
          expenses \in HistoricalExpenses, months \in ForecastMonths,
          s \in DOMAIN Scenarios :
           /\ revenue = <<>> => months <= 1
           /\ CallScenarioForecast(company_id, revenue, expenses, months, Scenarios[s])

SpecForecast == Init /\ [][NextForecast]_vars

\* the annual growth rates of the claim for a historical growth rate g, in
\* percent: <<revenue, expenses>>
ClaimedRates(scenario, g) ==
    IF scenario = "best" THEN <<g + 5, g - 2>>
    ELSE IF scenario = "base" THEN <<g, g>>
    ELSE <<g - 5, g + 3>>

\* round(monthly * (1 + (percent / 100) / 12) ** i, 2) for the fraction monthly
Compounded(monthly, percent, i) ==
    PyFloat(RoundDiv(monthly.n * Pow(1200 + percent, i), monthly.d * Pow(1200, i)))

\* C15: for a historical growth rate g (in percent) the forecaster uses the
\* annual growth rates (g+5)/100 for revenue and (g-2)/100 for expenses in
\* the best scenario, g/100 for both in the base scenario and (g-5)/100 and
\* (g+3)/100 in the worst scenario, and the projection for the month index i
\* is the base monthly value times (1 + rate/12)^i (stored to 2 places)
C15_ScenarioGrowth ==
    call.fn = "_generate_scenario_forecast"
        => LET rates == ClaimedRates(call.scenario, call.historical.growth_rate.v \div 100)
               company == Company[call.company]
               revenue == monthly_revenue(company, call.historical)
               expenses == monthly_expenses(company, call.historical)
           IN  /\ Len(call.result.revenue_forecast) = call.months
               /\ Len(call.result.expense_forecast) = call.months
               /\ \A i \in 0..(call.months - 1) :
                     /\ call.result.revenue_forecast[i + 1].value
                            = Compounded(revenue, rates[1], i)
                     /\ call.result.expense_forecast[i + 1].value
                            = Compounded(expenses, rates[2], i)

\* C15 happened: a best-case forecast over three months from a growth rate of
\* 100 percent, whose third month shows the compounding (1.03, 1.12, 1.22)
C15_Witness ==
    /\ call.fn = "_generate_scenario_forecast"
    /\ call.scenario = "best"
    /\ call.months = 3
    /\ call.historical.growth_rate = PyFloat(10000)
    /\ call.result.revenue_forecast[1].value = PyFloat(103)
    /\ call.result.revenue_forecast[3].value = PyFloat(122)

(***************************************************************************)
(* The generation views (views.py) and the record store under all four     *)
(* kinds of request: process, assess, recommendation generation and        *)
(* forecast generation.  A generation request reads the store once and     *)
(* creates its rows; no other request reads recommendations or forecasts.  *)
(***************************************************************************)
MaxRecommendations == 1
MaxForecasts == 1

\* the FinancialMetrics row of an id, None for the id 0 of no row
MetricsOrNone(rows, metrics_id) == IF metrics_id = 0 THEN None ELSE rows[metrics_id]

\* a generate that, like assess, refuses a company without metrics
RecommendationsOutcomeRequiringMetrics(company_id, rows) ==
    IF company_id = 0
    THEN [status |-> 400, message |-> "company_id required", recs |-> <<>>]
    ELSE IF company_id \notin CompanyIds
    THEN [status |-> 404, message |-> "Not found.", recs |-> <<>>]
    ELSE IF LatestMetricsId(rows, company_id) = 0
    THEN [status |-> 400,
          message |-> "No financial metrics found. Please process financial data first.",
          recs |-> <<>>]
    ELSE LET m == rows[LatestMetricsId(rows, company_id)]
         IN  [ status |-> 200, message |-> "",
               recs |-> CostOptimizerEngine_generate_recommendations(
                            company_id, Company[company_id], m)
                        \o WorkingCapitalEngine_generate_recommendations(
                            company_id, Company[company_id], m) ]

\* RecommendationViewSet.generate for the request's company_id (0: not given):
\* the response's status and message and the recommendations created
RecommendationsOutcome(company_id, rows) ==
    IF company_id = 0
    THEN [status |-> 400, message |-> "company_id required", recs |-> <<>>]
    ELSE IF company_id \notin CompanyIds
    THEN [status |-> 404, message |-> "Not found.", recs |-> <<>>]
    ELSE LET m == MetricsOrNone(rows, LatestMetricsId(rows, company_id))
         IN  [ status |-> 200, message |-> "",
               recs |-> CostOptimizerEngine_generate_recommendations(
                            company_id, Company[company_id], m)
                        \o WorkingCapitalEngine_generate_recommendations(
                            company_id, Company[company_id], m) ]

\* the response's id is the number of recommendations it lists
GenerateRecommendations(company_id) ==
    /\ Len(recommendations) < MaxRecommendations
    /\ LET outcome == RecommendationsOutcome(company_id, metrics)
       IN  /\ recommendations' = recommendations \o outcome.recs
           /\ response' = Response("generate_recommendations", company_id,
                                   outcome.status, outcome.message, Len(outcome.recs))
    /\ UNCHANGED <<financial_data, metrics, assessments, forecasts, proc, call>>

\* ForecastViewSet.generate: the response's status and message and the
\* forecasts created
ForecastsOutcome(company_id, months, rows) ==
    IF company_id = 0
    THEN [status |-> 400, message |-> "company_id required", forecasts |-> <<>>]
    ELSE IF company_id \notin CompanyIds
    THEN [status |-> 404, message |-> "Not found.", forecasts |-> <<>>]
    ELSE [ status |-> 200, message |-> "",
           forecasts |-> generate_forecasts(company_id, Company[company_id], rows, months) ]

\* the response's id is the number of forecasts it lists
GenerateForecasts(company_id, months) ==
    /\ Len(forecasts) < MaxForecasts
    /\ LET outcome == ForecastsOutcome(company_id, months, financial_data)
       IN  /\ forecasts' = forecasts \o outcome.forecasts
           /\ response' = Response("generate_forecasts", company_id, outcome.status,
                                   outcome.message, Len(outcome.forecasts))
    /\ UNCHANGED <<financial_data, metrics, assessments, recommendations, proc, call>>

\* the store of a session: two statements of ServicePro Consulting, in period
\* order, and none of the other companies
StoreUploads ==
    << Uploaded(2, "csv", EarlyFrame),
       Uploaded(2, "csv", StrongFrame) >>

\* the company ids of the generation requests: none (0), a company without
\* statements, the company of the statements, an unknown id
RecommendationCompanyIds == {0, 1, 2, Len(Company) + 1}
ForecastCompanyIds == {0, 2, Len(Company) + 1}
\* forecasts are requested for one month
RequestMonths == {1}

InitStore ==
    /\ financial_data = StoreUploads
    /\ metrics = <<>>
    /\ assessments = <<>>
    /\ recommendations = <<>>
    /\ forecasts = <<>>
    /\ proc = Idle
    /\ response = Response("none", 0, 0, "", 0)
    /\ call = NoCall

NextStore ==
    \/ \E pk \in DOMAIN financial_data : ProcessIngest(pk)
    \/ ProcessCreateMetrics
    \/ ProcessScore
    \/ \E company_id \in RequestCompanyIds : Assess(company_id)
    \/ \E company_id \in RecommendationCompanyIds : GenerateRecommendations(company_id)
    \/ \E company_id \in ForecastCompanyIds, months \in RequestMonths :
           GenerateForecasts(company_id, months)

SpecStore == InitStore /\ [][NextStore]_vars

\* ---------------------------------------------------------------------------
\* Properties of the views
\* ---------------------------------------------------------------------------

\* the metrics rows whose process request has returned
Finished(i) == ~(proc.pc = "created" /\ proc.id = i)

\* C6: absent ratio inputs are never an error: every process request whose
\* file was ingested ends with a metrics row that carries a health score, and
\* every assess request for a company that has metrics ends with an assessment
\* (no request ends with the TypeError of an arithmetic step)
C6_AbsentInputsNeverAnError ==
    /\ \A i \in DOMAIN metrics : Finished(i) => metrics[i].health_score # None
    /\ response.view = "assess" /\ response.status = 400
          => response.message \in
                {"company_id required",
                 "No financial metrics found. Please process financial data first."}

\* C7: an assess request for a company without FinancialMetrics returns the
\* error that names the missing step, creates no CreditAssessment and leaves
\* every record as it was
C7_AssessWithoutMetrics ==
    [][\A c \in CompanyIds :
          Assess(c) /\ LatestMetricsId(metrics, c) = 0
             => /\ response'.status = 400
                /\ response'.message =
                      "No financial metrics found. Please process financial data first."
                /\ Contains(response'.message, "process financial data first")
                /\ UNCHANGED <<assessments, metrics, financial_data>>]_vars

\* C7 happened: the last request was an assess that was refused for want of
\* metrics, while another company's metrics were there
C7_Witness ==
    /\ response.view = "assess"
    /\ response.arg \in CompanyIds
    /\ LatestMetricsId(metrics, response.arg) = 0
    /\ response.status = 400
    /\ Len(metrics) > 0
    /\ assessments = <<>>

\* C8: when process_file raises, the process request returns an error response
\* that carries the cause, the upload's processed flag and raw_data stay as
\* they were and no metrics row is created
C8_IngestionFailure ==
    [][\A pk \in DOMAIN financial_data :
          ProcessIngest(pk) /\ process_file(financial_data[pk]).raised
             => /\ response'.view = "process"
                /\ response'.arg = pk
                /\ response'.status = 400
                /\ response'.message = process_file(financial_data[pk]).message
                /\ response'.message # ""
                /\ financial_data'[pk].processed = financial_data[pk].processed
                /\ financial_data'[pk].raw_data = financial_data[pk].raw_data
                /\ UNCHANGED <<financial_data, metrics, proc>>]_vars

\* C8 happened: the last request was a process whose file could not be read,
\* and the upload is still unprocessed
C8_Witness ==
    /\ response.view = "process"
    /\ response.status = 400
    /\ response.arg \in DOMAIN financial_data
    /\ process_file(financial_data[response.arg]).raised
    /\ response.message = process_file(financial_data[response.arg]).message
    /\ ~financial_data[response.arg].processed
    /\ \A i \in DOMAIN metrics : metrics[i].financial_data # response.arg

\* C9: the bundle is validated non-empty before use: no upload is marked
\* processed with a bundle that has no balance-sheet, income-statement or
\* cash-flow entry, and no metrics row is computed from such a bundle
C9_EmptyBundleRejected ==
    /\ \A pk \in DOMAIN financial_data :
          financial_data[pk].processed => validate_data(financial_data[pk].raw_data)
    /\ \A i \in DOMAIN metrics :
          validate_data(financial_data[metrics[i].financial_data].raw_data)

\* every row of s is still in t, at its place and unchanged
Kept(s, t) == Len(s) <= Len(t) /\ \A i \in DOMAIN s : t[i] = s[i]

\* C16 as stated: the persisted state is strictly append-style: every
\* financial_data, metrics, credit_assessment, recommendation and forecast
\* record that existed before an action is still present and unchanged after
\* it (the metrics row a process request has created and not yet scored is
\* that request's own)
C16_AppendOnly ==
    [][ /\ \A pk \in DOMAIN financial_data :
              pk \in DOMAIN financial_data' /\ financial_data'[pk] = financial_data[pk]
        /\ Len(metrics) <= Len(metrics')
        /\ \A i \in DOMAIN metrics : Finished(i) => metrics'[i] = metrics[i]
        /\ Kept(assessments, assessments')
        /\ Kept(recommendations, recommendations')
        /\ Kept(forecasts, forecasts') ]_vars

\* C16, amended: every metrics, credit_assessment, recommendation and
\* forecast record that existed before an action is still present and
\* unchanged after it, and every financial_data record is still present with
\* its company, file and file type; only the process action changes a
\* financial_data record, setting raw_data and processed on the record it
\* processes, and re-processing a processed record leaves it as it is
C16_AppendOnlyResults ==
    [][ /\ DOMAIN financial_data' = DOMAIN financial_data
        /\ \A pk \in DOMAIN financial_data :
              LET before == financial_data[pk]
                  after == financial_data'[pk]
              IN  /\ after.company = before.company
                  /\ after.file = before.file
                  /\ after.file_type = before.file_type
                  /\ before.processed => after = before
                  /\ after # before
                        => /\ proc.pc = "idle" /\ proc'.pc = "saved" /\ proc'.pk = pk
                           /\ after.processed
                           /\ after.raw_data = process_file(before).data
        /\ Len(metrics) <= Len(metrics')
        /\ \A i \in DOMAIN metrics : Finished(i) => metrics'[i] = metrics[i]
        /\ Kept(assessments, assessments')
        /\ Kept(recommendations, recommendations')
        /\ Kept(forecasts, forecasts') ]_vars

\* C16 happened: both statements were processed, recommendations were
\* generated from the first metrics row and an assessment made of the second,
\* and the store holds all of them with the forecasts
C16_Witness ==
    /\ proc = Idle
    /\ \A pk \in DOMAIN financial_data : financial_data[pk].processed
    /\ Len(metrics) = 2
    /\ metrics[1].financial_data # metrics[2].financial_data
    /\ metrics[1].health_score # None
    /\ metrics[2].health_score # None
    /\ Len(assessments) = 1
    /\ Len(recommendations) > 0
    /\ Len(forecasts) = 3

\* C17: when the company has no metrics, both recommendation engines return
\* an empty list, the request raises no error and no Recommendation record
\* is created
C17_AbsentMetrics ==
    [][ \A company_id \in CompanyIds :
           GenerateRecommendations(company_id) /\ LatestMetricsId(metrics, company_id) = 0
               => /\ CostOptimizerEngine_generate_recommendations(
                         company_id, Company[company_id], None) = <<>>
                  /\ WorkingCapitalEngine_generate_recommendations(
                         company_id, Company[company_id], None) = <<>>
                  /\ recommendations' = recommendations
                  /\ response'.status = 200
                  /\ response'.id = 0 ]_vars

\* C17 happened: recommendations were requested for a company without
\* metrics, while another company has metrics, and the answer was an empty list
C17_Witness ==
    /\ response.view = "generate_recommendations"
    /\ response.arg \in CompanyIds
    /\ LatestMetricsId(metrics, response.arg) = 0
    /\ Len(metrics) > 0
    /\ response.status = 200
    /\ response.id = 0
    /\ recommendations = <<>>

\* the ids of the company's metrics rows; calculated_at grows with the id
MetricsIds(rows, c) == {i \in DOMAIN rows : rows[i].company = c}
Newest(rows, c) == CHOOSE i \in MetricsIds(rows, c) : \A j \in MetricsIds(rows, c) : j <= i

\* C18: after any sequence of process actions for a company, the assess
\* action and the recommendation-generation action use the company's
\* FinancialMetrics record with the greatest calculated_at, never an older one
C18_LatestMetricsRead ==
    [][ \A company_id \in CompanyIds :
           MetricsIds(metrics, company_id) # {}
               => LET id == Newest(metrics, company_id)
                      company == Company[company_id]
                  IN  /\ Assess(company_id) /\ Len(assessments') > Len(assessments)
                         => assessments'[Len(assessments')].metrics = id
                      /\ GenerateRecommendations(company_id)
                         => recommendations'
                              = recommendations
                                \o CostOptimizerEngine_generate_recommendations(
                                       company_id, company, metrics[id])
                                \o WorkingCapitalEngine_generate_recommendations(
                                       company_id, company, metrics[id]) ]_vars

\* C18 happened: the company has an older row that calls for recommendations
\* and a newer one that calls for none; the assessment is of the newer row and
\* the recommendations requested were none
C18_Witness ==
    /\ Len(metrics) = 2
    /\ metrics[1].company = metrics[2].company
    /\ metrics[1].financial_data # metrics[2].financial_data
    /\ CostOptimizerEngine_generate_recommendations(
           metrics[1].company, Company[metrics[1].company], metrics[1]) # <<>>
    /\ Len(assessments) = 1
    /\ assessments[1].company = metrics[2].company
    /\ assessments[1].metrics = 2
    /\ response.view = "generate_recommendations"
    /\ response.arg = metrics[2].company
    /\ response.status = 200
    /\ response.id = 0
    /\ recommendations = <<>>

\* C27: when processing and assessment of a company run concurrently, the
\* assess action never reads a persisted FinancialMetrics row whose
\* health_score is still unset: a row becomes visible only with its score
C27_AssessSeesScoredMetrics ==
    [][ \A company_id \in CompanyIds :
           Assess(company_id) /\ LatestMetricsId(metrics, company_id) # 0
               => metrics[LatestMetricsId(metrics, company_id)].health_score # None ]_vars

\* C28: once a process action has ended, with a success or with an error
\* response, every FinancialData row marked processed has at least one
\* FinancialMetrics row with a health score
C28_ProcessedHasScoredMetrics ==
    proc.pc = "idle"
        => \A pk \in DOMAIN financial_data :
              financial_data[pk].processed
                  => \E i \in DOMAIN metrics :
                        /\ metrics[i].financial_data = pk
                        /\ metrics[i].health_score # None

====
